---------------------------- MODULE Spec2Model ----------------------------
(***************************************************************************)
(* A model of three-msdf-text-webgpu: the string-driven text entity        *)
(* (MSDFText), its geometry (MSDFTextGeometry: layoutText, measureRange,   *)
(* buildGeometryAttributes), the per-letter overrides and the setters of   *)
(* its material (MSDFTextNodeMaterial), the metrics of measure.ts for a    *)
(* string and for an element of the page, and the entities built from an   *)
(* element (MSDFText.fromDomElement, SyncMSDFText).                        *)
(*                                                                         *)
(* Numbers.  The code computes in floating point.  Every length of the     *)
(* model (glyph metrics, widths, spacings) is an integer multiple of 4, so *)
(* that each halving the code performs (x / 2, x * 0.5) is exact and \div  *)
(* states it; the font sizes are multiples of 4 as well, so that a length  *)
(* times fontSize / info.size is whole, and a size that is no multiple of  *)
(* 8 is given only to a text whose scaled lengths are even where the code  *)
(* halves them.  Colour channels and opacities are 0 or 1; 1.2 font sizes, *)
(* the line height 'normal', is taken of a font size that is a multiple of *)
(* 5.  The uv buffer holds the numerators of the fractions over            *)
(* font.common.scaleW and scaleH.                                          *)
(*                                                                         *)
(* Strings are sequences of one-character strings; text positions are      *)
(* 0-based as in the code (CharAt).  A typed array is a sequence.          *)
(***************************************************************************)
EXTENDS Integers, Sequences, FiniteSets, TLC

(***************************************************************************)
(* Bounds of the model.                                                    *)
(***************************************************************************)
\* longest text of the layout specification
MaxLen == 3
\* longest text of the entity specification
MaxEntityLen == 2
\* operations applied to an entity after its construction
MaxOps == 2
\* canvases the platform creates for the measurement (construction attempts)
MaxCanvases == 2
\* the levels of a channel of a texel: a channel holds c / MaxChannel, c in 0 .. MaxChannel
MaxChannel == 4

(***************************************************************************)
(* Small helpers.                                                          *)
(***************************************************************************)
Max(a, b) == IF a >= b THEN a ELSE b
Min(a, b) == IF a <= b THEN a ELSE b

\* all sequences over S of length at most n
RECURSIVE SeqsUpTo(_, _)
SeqsUpTo(S, n) ==
  IF n = 0 THEN { <<>> }
  ELSE LET shorter == SeqsUpTo(S, n - 1)
       IN  shorter \cup { Append(s, c) : s \in { t \in shorter : Len(t) = n - 1 }, c \in S }

\* the sequence of n copies of the elements of s, where s has length k: s repeated
Replicate(n, v) == [i \in 1..n |-> v]

RECURSIVE Flatten(_)
Flatten(ss) == IF ss = <<>> THEN <<>> ELSE Head(ss) \o Flatten(Tail(ss))

(***************************************************************************)
(* The font descriptor (BMFontJSON) the entity is built with.  "a" and "W" *)
(* are visible glyphs, " " is a glyph of no extent; the newline and "?"    *)
(* have no record in font.chars.                                           *)
(***************************************************************************)
Alphabet == { "a", "W", " ", "\n", "?" }

\* String.charCodeAt
CharCode(c) ==
  CASE c = "a"  -> 97
    [] c = "W"  -> 87
    [] c = " "  -> 32
    [] c = "\n" -> 10
    [] c = "?"  -> 63

FontChars ==
  { [id |-> 97, x |-> 0, y |-> 0, width |-> 8,  height |-> 8,  xoffset |-> 0, yoffset |-> 4, xadvance |-> 8],
    [id |-> 87, x |-> 8, y |-> 0, width |-> 16, height |-> 12, xoffset |-> 4, yoffset |-> 0, xadvance |-> 20],
    [id |-> 32, x |-> 0, y |-> 0, width |-> 0,  height |-> 0,  xoffset |-> 0, yoffset |-> 0, xadvance |-> 4] }

FontKernings ==
  { [first |-> 87, second |-> 97, amount |-> -4],
    [first |-> 97, second |-> 63, amount |-> -4] }

FontCommon == [lineHeight |-> 20, base |-> 12, scaleW |-> 32, scaleH |-> 16]

FontInfoSize == 16

\* x * fontSizeScale for a scale given as its numerator over FontInfoSize; the
\* lengths of the font and the font sizes are such that the product is whole
Scaled(x, fontSizeScale) == (x * fontSizeScale) \div FontInfoSize

\* "no glyph": the null of lastGlyph and the undefined of glyphLookup.get
NoGlyph == [id |-> 0]

\* buildGlyphAndKerningLookups: glyphLookup.get(charCode)
GlyphLookup(code) ==
  IF \E g \in FontChars : g.id = code
  THEN CHOOSE g \in FontChars : g.id = code
  ELSE NoGlyph

\* getKerningAmount(kerningLookup, left, right)
getKerningAmount(left, right) ==
  IF left = NoGlyph \/ right = NoGlyph THEN 0
  ELSE IF \E k \in FontKernings : k.first = left.id /\ k.second = right.id
       THEN (CHOOSE k \in FontKernings : k.first = left.id /\ k.second = right.id).amount
       ELSE 0

(***************************************************************************)
(* Text.                                                                   *)
(***************************************************************************)
CharAt(text, i) == text[i + 1]
CharCodeAt(text, i) == CharCode(text[i + 1])

\* /\s/.test(chr) of word-wrapper
isWhitespace(chr) == chr \in { " ", "\n" }

\* Number.MAX_VALUE: the width word-wrapper hands to measure when it does not wrap
MAX_VALUE == 1000000

\* a variant of the skip of an unresolved character that keeps the kerning context
LastGlyphKept(lastGlyph) == lastGlyph

\* "if (!glyph) { lastGlyph = null; continue; }": the kerning context after a
\* character the font does not resolve
LastGlyphAfterSkip(lastGlyph) == NoGlyph

\* maxErrorPercent = 0.5, in thousandths of the width
MaxErrorPermille == 5

(***************************************************************************)
(* measureRange: the measure callback of word-wrapper.  It walks the       *)
(* characters of [start, min(text.length, end)) and stops before the first *)
(* glyph whose right edge exceeds the width (with its tolerance).          *)
(***************************************************************************)
\* a variant of the width test that never stops the measurement
NeverExceedsWidth(right, width) == FALSE

\* right > widthIncError, where widthIncError = width * (1 + maxErrorPercent/100);
\* for width = Number.MAX_VALUE the product overflows to Infinity.  The double
\* 1 + 0.5/100 lies just below 1.005, so where width * 1.005 is a whole number
\* (width a multiple of 200, below 4200) the product is rounded to the double
\* below it, and a right edge equal to that whole number exceeds it.
ExceedsWidth(right, width) ==
  IF width = MAX_VALUE THEN FALSE
  ELSE IF width > 0 /\ (width * (1000 + MaxErrorPermille)) % 1000 = 0
       THEN right * 1000 >= width * (1000 + MaxErrorPermille)
       ELSE right * 1000 > width * (1000 + MaxErrorPermille)

RECURSIVE MeasureLoop(_, _, _, _, _, _, _, _, _, _)
MeasureLoop(fontSizeScale, letterSpacing, text, start, glyphCount, width, i, penX, maxX, lastGlyph) ==
  IF i >= glyphCount THEN [start |-> start, end |-> i, width |-> maxX]
  ELSE LET glyph == GlyphLookup(CharCodeAt(text, i)) IN
       IF glyph = NoGlyph
       THEN MeasureLoop(fontSizeScale, letterSpacing, text, start, glyphCount, width,
                        i + 1, penX, maxX, LastGlyphAfterSkip(lastGlyph))
       ELSE LET pen     == penX + getKerningAmount(lastGlyph, glyph)
                left    == pen + Scaled(glyph.xoffset, fontSizeScale)
                right   == left + Scaled(glyph.width, fontSizeScale)
                advance == Scaled(glyph.xadvance, fontSizeScale) + letterSpacing
            IN  IF ExceedsWidth(right, width)
                THEN [start |-> start, end |-> i, width |-> maxX]
                ELSE MeasureLoop(fontSizeScale, letterSpacing, text, start, glyphCount, width,
                                 i + 1, pen + advance, Max(maxX, right), glyph)

measureRange(fontSizeScale, letterSpacing, text, start, end, width) ==
  MeasureLoop(fontSizeScale, letterSpacing, text, start, Min(Len(text), end), width,
              start, 0, 0, NoGlyph)

(***************************************************************************)
(* wordWrap.lines of the word-wrapper package (the line breaker layoutText *)
(* calls): `pre' breaks at newlines only and measures each segment with    *)
(* the given width; otherwise the greedy wrapper, which for `nowrap'       *)
(* measures with Number.MAX_VALUE.                                         *)
(***************************************************************************)
\* idxOf(text, "\n", start, end)
RECURSIVE idxOf(_, _, _)
idxOf(text, start, end) ==
  IF start >= end \/ start >= Len(text) THEN end
  ELSE IF CharAt(text, start) = "\n" THEN start
  ELSE idxOf(text, start + 1, end)

\* while (start < newLine) { if (!isWhitespace(text.charAt(start))) break; start++ }
RECURSIVE EatLeading(_, _, _)
EatLeading(text, start, newLine) ==
  IF start < newLine /\ isWhitespace(CharAt(text, start))
  THEN EatLeading(text, start + 1, newLine)
  ELSE start

\* while (lineEnd > start) { if (isWhitespace(text.charAt(lineEnd))) break; lineEnd-- }
RECURSIVE FindBreak(_, _, _)
FindBreak(text, start, lineEnd) ==
  IF lineEnd > start /\ ~ isWhitespace(CharAt(text, lineEnd))
  THEN FindBreak(text, start, lineEnd - 1)
  ELSE lineEnd

\* while (lineEnd > start) { if (!isWhitespace(text.charAt(lineEnd - 1))) break; lineEnd-- }
RECURSIVE EatTrailing(_, _, _)
EatTrailing(text, start, lineEnd) ==
  IF lineEnd > start /\ isWhitespace(CharAt(text, lineEnd - 1))
  THEN EatTrailing(text, start, lineEnd - 1)
  ELSE lineEnd

RECURSIVE greedy(_, _, _, _, _, _, _)

\* the rest of one round of greedy's loop, once the line from start is measured up
\* to measEnd: the break, the line pushed, and the next round
greedyLine(fontSizeScale, letterSpacing, text, end, testWidth, lines, newLine, start, measEnd) ==
  LET cut       == measEnd < newLine
      breakAt   == FindBreak(text, start, measEnd)
      noBreak   == breakAt = start
      \* nextStart, after "if (nextStart > start + 1) nextStart--" in the no-break case
      nextStart == IF ~ cut THEN measEnd + 1
                   ELSE IF noBreak
                        THEN (IF measEnd + 1 > start + 1 THEN measEnd ELSE measEnd + 1)
                        ELSE breakAt
      lineEnd   == IF ~ cut THEN measEnd
                   ELSE IF noBreak THEN nextStart
                        ELSE EatTrailing(text, start, breakAt)
      pushed    == IF lineEnd >= start
                   THEN Append(lines, measureRange(fontSizeScale, letterSpacing, text, start, lineEnd, testWidth))
                   ELSE lines
  IN  greedy(fontSizeScale, letterSpacing, text, nextStart, end, testWidth, pushed)

\* measured.end - measured.start
MeasuredLength(measured) == measured.end - measured.start

greedy(fontSizeScale, letterSpacing, text, start0, end, testWidth, lines) ==
  IF ~ (start0 < end /\ start0 < Len(text)) THEN lines
  ELSE
    LET newLine == idxOf(text, start0, end)
        start   == EatLeading(text, start0, newLine)
    IN  greedyLine(fontSizeScale, letterSpacing, text, end, testWidth, lines, newLine, start,
                   start + MeasuredLength(measureRange(fontSizeScale, letterSpacing, text,
                                                       start, newLine, testWidth)))

RECURSIVE pre(_, _, _, _, _, _, _, _)
pre(fontSizeScale, letterSpacing, text, end, width, i, lineStart, lines) ==
  IF ~ (i < end /\ i < Len(text)) THEN lines
  ELSE LET isNewline == CharAt(text, i) = "\n" IN
       IF isNewline \/ i = end - 1
       THEN LET lineEnd == IF isNewline THEN i ELSE i + 1
            IN  pre(fontSizeScale, letterSpacing, text, end, width, i + 1, i + 1,
                    Append(lines, measureRange(fontSizeScale, letterSpacing, text, lineStart, lineEnd, width)))
       ELSE pre(fontSizeScale, letterSpacing, text, end, width, i + 1, lineStart, lines)

\* wordWrap.lines(text, { width, mode, measure }); mode is "pre", "nowrap" or "" (undefined)
wordWrapLines(fontSizeScale, letterSpacing, text, width, mode) ==
  IF width = 0 /\ mode # "nowrap" THEN <<>>
  ELSE IF mode = "pre"
       THEN pre(fontSizeScale, letterSpacing, text, Len(text), width, 0, 0, <<>>)
       ELSE greedy(fontSizeScale, letterSpacing, text, 0, Len(text),
                   IF mode = "nowrap" THEN MAX_VALUE ELSE width, <<>>)

(***************************************************************************)
(* layoutText: line breaking, then the placement of each line's glyphs.    *)
(***************************************************************************)
\* the wrap mode handed to word-wrapper: only 'pre' and 'nowrap' are passed on
WrapMode(whiteSpace) == IF whiteSpace \in { "pre", "nowrap" } THEN whiteSpace ELSE ""

\* fontSizeScale = fontSize / font.info.size, kept as its numerator over FontInfoSize
FontSizeScale(metrics) == metrics.fontCssStyles.fontSize

\* a variant of the line height that is always that of the font
FontLineHeightOfFont(metrics) == FontCommon.lineHeight

\* metrics.fontCssStyles.lineHeightPx || font.common.lineHeight
FontLineHeight(metrics) ==
  IF metrics.fontCssStyles.lineHeightPx # 0 THEN metrics.fontCssStyles.lineHeightPx
  ELSE FontCommon.lineHeight

LayoutLines(metrics) ==
  wordWrapLines(FontSizeScale(metrics), metrics.fontCssStyles.letterSpacingPx,
                metrics.text, metrics.widthPx, WrapMode(metrics.fontCssStyles.whiteSpace))

\* the glyphs of one line before alignment, with the line's width:
\* the loop "for (let i = lineStart; i < lineEnd; i++)"
RECURSIVE PlaceLine(_, _, _, _, _, _, _, _, _)
PlaceLine(metrics, lineIndex, lineEnd, i, penX, lineWidth, lastGlyph, glyphIndex, lineGlyphs) ==
  IF i >= lineEnd THEN [glyphs |-> lineGlyphs, lineWidth |-> lineWidth]
  ELSE LET glyph == IF i < Len(metrics.text) THEN GlyphLookup(CharCodeAt(metrics.text, i)) ELSE NoGlyph IN
       IF glyph = NoGlyph
       THEN PlaceLine(metrics, lineIndex, lineEnd, i + 1, penX, lineWidth,
                      LastGlyphAfterSkip(lastGlyph), glyphIndex, lineGlyphs)
       ELSE LET fontSizeScale == FontSizeScale(metrics)
                yOffset     == Scaled(FontCommon.base, fontSizeScale) - metrics.canvasRenderMeasurements.baselineOffsetTop
                topLineY    == - (lineIndex * FontLineHeight(metrics))
                pen         == penX + getKerningAmount(lastGlyph, glyph)
                glyphLeft   == pen + Scaled(glyph.xoffset, fontSizeScale)
                glyphTop    == topLineY - Scaled(glyph.yoffset, fontSizeScale)
                glyphBottom == glyphTop - Scaled(glyph.height, fontSizeScale)
                glyphWidth  == Scaled(glyph.width, fontSizeScale)
                glyphHeight == Scaled(glyph.height, fontSizeScale)
                placed      == [index |-> glyphIndex, code |-> CharCodeAt(metrics.text, i),
                                lineIndex |-> lineIndex,
                                bottomLeftPosition |-> [x |-> glyphLeft, y |-> glyphBottom + yOffset],
                                size |-> [width |-> glyphWidth, height |-> glyphHeight],
                                atlas |-> glyph]
            IN  PlaceLine(metrics, lineIndex, lineEnd, i + 1,
                          pen + Scaled(glyph.xadvance, fontSizeScale) + metrics.fontCssStyles.letterSpacingPx,
                          Max(lineWidth, glyphLeft + glyphWidth), glyph,
                          glyphIndex + 1, Append(lineGlyphs, placed))

\* a variant of the alignment offset that aligns the pen origin and not the line
AlignmentOffsetOfOrigin(metrics, lineWidth) ==
  LET textAlign == metrics.fontCssStyles.textAlign IN
  IF textAlign = "center" THEN metrics.widthPx \div 2
  ELSE IF textAlign \in { "right", "end" } THEN metrics.widthPx
  ELSE 0

\* the alignment offset of a line of the given width
AlignmentOffset(metrics, lineWidth) ==
  LET textAlign == metrics.fontCssStyles.textAlign IN
  IF textAlign = "center" THEN (metrics.widthPx - lineWidth) \div 2
  ELSE IF textAlign \in { "right", "end" } THEN metrics.widthPx - lineWidth
  ELSE 0

\* lines.forEach((line, lineIndex) => ...), from line number k (1-based) on
RECURSIVE PlaceLines(_, _, _, _, _)
PlaceLines(metrics, lines, k, glyphIndex, layoutGlyphs) ==
  IF k > Len(lines) THEN layoutGlyphs
  ELSE LET line    == PlaceLine(metrics, k - 1, lines[k].end, lines[k].start, 0, 0, NoGlyph, glyphIndex, <<>>)
           offset  == AlignmentOffset(metrics, line.lineWidth)
           aligned == [j \in 1..Len(line.glyphs) |->
                         [line.glyphs[j] EXCEPT !.bottomLeftPosition.x = @ + offset]]
       IN  PlaceLines(metrics, lines, k + 1, glyphIndex + Len(line.glyphs), layoutGlyphs \o aligned)

\* what layoutText returns for the lines the wrapper gave it
LaidOut(metrics, lines) ==
  [glyphs |-> PlaceLines(metrics, lines, 1, 0, <<>>),
   lines  |-> lines,
   width  |-> metrics.widthPx,
   height |-> FontLineHeight(metrics) * Len(lines)]

layoutText(metrics) == LaidOut(metrics, LayoutLines(metrics))

(***************************************************************************)
(* Optional typed arrays: a Float32Array, null or undefined.               *)
(***************************************************************************)
Null       == [kind |-> "null", data |-> <<>>]
Undefined  == [kind |-> "undefined", data |-> <<>>]
F32(data)  == [kind |-> "f32", data |-> data]

\* colors?.[i] ?? 1.0 : a read past the end of a typed array, or of null, is undefined
ColorComponent(colors, i) ==
  IF colors.kind = "f32" /\ i < Len(colors.data) THEN colors.data[i + 1] ELSE 1

\* TypedArray.prototype.set(source): the first source.length elements are overwritten
TypedArraySet(target, source) ==
  [i \in 1..Len(target) |-> IF i <= Len(source) THEN source[i] ELSE target[i]]

(***************************************************************************)
(* buildGeometryAttributes: the flat arrays of the placed glyphs.          *)
(***************************************************************************)
\* a variant of the quad's vertices that starts at the bottom-left anchor
QuadPositionsFromBottomLeft(glyph) ==
  LET x       == glyph.bottomLeftPosition.x
      yBottom == glyph.bottomLeftPosition.y
      yTop    == yBottom + glyph.size.height
      right   == x + glyph.size.width
  IN  << x, yBottom, 0,  right, yBottom, 0,  right, yTop, 0,  x, yTop, 0 >>

\* the four vertices of the glyph's quad: top-left, top-right, bottom-right, bottom-left
QuadPositions(glyph) ==
  LET x       == glyph.bottomLeftPosition.x
      yBottom == glyph.bottomLeftPosition.y
      yTop    == yBottom + glyph.size.height
      right   == x + glyph.size.width
  IN  << x, yTop, 0,  right, yTop, 0,  right, yBottom, 0,  x, yBottom, 0 >>

\* flipY is true: v = 1 - vRaw, as a numerator over scaleH
QuadUvs(glyph) ==
  LET u0 == glyph.atlas.x
      u1 == glyph.atlas.x + glyph.atlas.width
      v1 == FontCommon.scaleH - glyph.atlas.y
      v0 == FontCommon.scaleH - (glyph.atlas.y + glyph.atlas.height)
  IN  << u0, v1,  u1, v1,  u1, v0,  u0, v0 >>

QuadCenters(glyph) ==
  LET centerX == glyph.bottomLeftPosition.x + glyph.size.width \div 2
      centerY == glyph.bottomLeftPosition.y + glyph.size.height \div 2
  IN  << centerX, centerY, centerX, centerY, centerX, centerY, centerX, centerY >>

\* a variant of the glyph index entries that numbers the vertices
QuadGlyphIndicesOfVertices(index) == << 4 * index, 4 * index + 1, 4 * index + 2, 4 * index + 3 >>

\* the array position of the glyph, at its four vertices
QuadGlyphIndices(index) == << index, index, index, index >>

\* a variant of the quad's indices that starts at the index position, index * 6
QuadIndicesFromIndexPosition(index) ==
  LET indicesIndex == index * 6
  IN  << indicesIndex, indicesIndex + 2, indicesIndex + 1,
         indicesIndex, indicesIndex + 3, indicesIndex + 2 >>

\* two triangles, counter-clockwise: (tl, br, tr) and (tl, bl, br)
QuadIndices(index) ==
  LET verticesIndex == index * 4
  IN  << verticesIndex, verticesIndex + 2, verticesIndex + 1,
         verticesIndex, verticesIndex + 3, verticesIndex + 2 >>

\* the colour of glyph i of a colour array (white where the array has no value),
\* at its four vertices
QuadColors(colors, i) ==
  LET rgba == << ColorComponent(colors, i * 4), ColorComponent(colors, i * 4 + 1),
                 ColorComponent(colors, i * 4 + 2), ColorComponent(colors, i * 4 + 3) >>
  IN  rgba \o rgba \o rgba \o rgba

\* buildGeometryAttributes({ glyphs, font, flipY: true }) of geometry.ts: the five
\* arrays it returns, under the names it returns them by
buildGeometryAttributes(glyphs) ==
  LET glyphCount == Len(glyphs) IN
  [positions    |-> Flatten([k \in 1..glyphCount |-> QuadPositions(glyphs[k])]),
   uvs          |-> Flatten([k \in 1..glyphCount |-> QuadUvs(glyphs[k])]),
   centers      |-> Flatten([k \in 1..glyphCount |-> QuadCenters(glyphs[k])]),
   indices      |-> Flatten([k \in 1..glyphCount |-> QuadIndices(k - 1)]),
   glpyhIndices |-> Flatten([k \in 1..glyphCount |-> QuadGlyphIndices(k - 1)])]

(***************************************************************************)
(* MSDFTextGeometry.update destructures positions, uvs, centers, indices,  *)
(* glyphIndices, glyphColors and glyphCount from the call                  *)
(* buildGeometryAttributes({ glyphs, font, flipY, glyphColors }).  The     *)
(* buildGeometryAttributes that takes the glyphColors option and returns   *)
(* the last three is not among the sources; they are taken from the        *)
(* description of the buffer builder: the glyph-index array under the name *)
(* the caller reads, 4 colour floats at each of the 4 vertices of a glyph  *)
(* (white and opaque where no colour is given), and the number of glyphs.  *)
(***************************************************************************)
\* the glyph-colour array built for the glyphColors option
BuiltColors(glyphCount, glyphColors) ==
  Flatten([i \in 1..glyphCount |-> QuadColors(glyphColors, i - 1)])

\* what update destructures from the result of its buildGeometryAttributes call
BuiltAttributes(glyphs, glyphColors) ==
  LET built == buildGeometryAttributes(glyphs) IN
  [positions    |-> built.positions,
   uvs          |-> built.uvs,
   centers      |-> built.centers,
   indices      |-> built.indices,
   glyphIndices |-> built.glpyhIndices,
   glyphColors  |-> BuiltColors(Len(glyphs), glyphColors),
   glyphCount   |-> Len(glyphs)]

(***************************************************************************)
(* MSDFTextGeometry.  A buffer attribute is [id, array]: id names the      *)
(* BufferAttribute object, and every `new THREE.BufferAttribute' takes the *)
(* next unused id (allocs counts the objects allocated so far).            *)
(***************************************************************************)
\* currentGlyphCount = null
NullCount == -1

NoAttribute == [id |-> 0, array |-> <<>>]

\* the geometry after super() and the field initialisers, before the first update
NewGeometry(glyphColors) ==
  [width |-> 0, height |-> 0, verticalAlign |-> "top", textAlign |-> "left",
   currentMetrics |-> [text |-> <<>>],
   currentGlyphCount |-> NullCount,
   glyphColors |-> glyphColors,
   attributes |-> [position |-> NoAttribute, uv |-> NoAttribute, center |-> NoAttribute,
                   glyphIndices |-> NoAttribute, glyphColors |-> NoAttribute,
                   index |-> NoAttribute],
   boundingBox |-> [min |-> <<0, 0>>, max |-> <<0, 0>>],
   allocs |-> 0]

\* get glyphCount(): this.currentGlyphCount || 0
GlyphCount(g) == IF g.currentGlyphCount = NullCount THEN 0 ELSE g.currentGlyphCount

\* a variant of the bounding box that spans from the layout origin whatever the alignment
computeBoundingBoxFromOrigin(width, height, textAlign, verticalAlign) ==
  [min |-> << 0, 0 >>, max |-> << width, height >>]

computeBoundingBox(width, height, textAlign, verticalAlign) ==
  LET xOffset == IF textAlign = "center" THEN - (width \div 2)
                 ELSE IF textAlign \in { "right", "end" } THEN - width ELSE 0
      yOffset == IF verticalAlign = "center" THEN - (height \div 2)
                 ELSE IF verticalAlign = "top" THEN - height ELSE 0
  IN  [min |-> << xOffset, yOffset >>, max |-> << xOffset + width, yOffset + height >>]

\* the attributes after the in-place branch of update
RefreshedAttributes(attributes, built) ==
  [attributes EXCEPT
     !.position.array    = TypedArraySet(@, built.positions),
     !.uv.array          = TypedArraySet(@, built.uvs),
     !.center.array      = TypedArraySet(@, built.centers),
     !.glyphColors.array = TypedArraySet(@, built.glyphColors)]

\* the attributes after the reallocating branch of update
ReallocatedAttributes(allocs, built) ==
  [position     |-> [id |-> allocs + 1, array |-> built.positions],
   uv           |-> [id |-> allocs + 2, array |-> built.uvs],
   center       |-> [id |-> allocs + 3, array |-> built.centers],
   glyphIndices |-> [id |-> allocs + 4, array |-> built.glyphIndices],
   glyphColors  |-> [id |-> allocs + 5, array |-> built.glyphColors],
   index        |-> [id |-> allocs + 6, array |-> built.indices]]

\* a variant of the branch test that never takes the in-place branch
NeverSameGlyphCount(currentGlyphCount, glyphCount) == FALSE

\* a variant of the branch test that keeps the buffers whenever the glyphs fit
GlyphCountFits(currentGlyphCount, glyphCount) == currentGlyphCount >= glyphCount

\* if (this.currentGlyphCount == glyphCount): the in-place branch is taken
SameGlyphCount(currentGlyphCount, glyphCount) == currentGlyphCount = glyphCount

\* update, from the layout of the metrics on: the arrays are built and stored
GeometryRebuilt(g, metrics, stored, layout) ==
  LET built  == BuiltAttributes(layout.glyphs, stored)
      same   == SameGlyphCount(g.currentGlyphCount, built.glyphCount)
  IN  [g EXCEPT
         !.glyphColors       = stored,
         !.width             = layout.width,
         !.height            = layout.height,
         !.verticalAlign     = metrics.fontCssStyles.verticalAlign,
         !.textAlign         = metrics.fontCssStyles.textAlign,
         !.attributes        = IF same THEN RefreshedAttributes(@, built)
                               ELSE ReallocatedAttributes(g.allocs, built),
         !.allocs            = IF same THEN @ ELSE @ + 6,
         !.boundingBox       = computeBoundingBox(layout.width, layout.height,
                                                  metrics.fontCssStyles.textAlign,
                                                  metrics.fontCssStyles.verticalAlign),
         !.currentMetrics    = metrics,
         !.currentGlyphCount = built.glyphCount]

\* MSDFTextGeometry.update(metrics, glyphColors)
GeometryUpdate(g, metrics, glyphColors) ==
  GeometryRebuilt(g, metrics,
                  IF glyphColors.kind # "undefined" THEN glyphColors ELSE g.glyphColors,
                  layoutText(metrics))

\* a variant of setGlyphColors that replaces the colour attribute by a new one
GeometrySetGlyphColorsAnew(g, colors) ==
  LET glyphCount  == GlyphCount(g)
      builtColors == Flatten([i \in 1..glyphCount |-> QuadColors(colors, i - 1)])
  IN  [g EXCEPT
         !.glyphColors = colors,
         !.attributes.glyphColors = [id |-> g.allocs + 1, array |-> builtColors],
         !.allocs = @ + 1]

\* MSDFTextGeometry.setGlyphColors(colors)
GeometrySetGlyphColors(g, colors) ==
  LET glyphCount  == GlyphCount(g)
      builtColors == Flatten([i \in 1..glyphCount |-> QuadColors(colors, i - 1)])
  IN  [g EXCEPT
         !.glyphColors = colors,
         !.attributes.glyphColors =
            IF @ # NoAttribute THEN [@ EXCEPT !.array = TypedArraySet(@, builtColors)]
            ELSE [id |-> g.allocs + 1, array |-> builtColors],
         !.allocs = IF g.attributes.glyphColors # NoAttribute THEN @ ELSE @ + 1]

(***************************************************************************)
(* measure.ts: the style snapshot of the string-driven path.  The font     *)
(* family, weight and style only name the canvas font and are left out.    *)
(***************************************************************************)
DEFAULT_FONT_STYLES ==
  [widthPx |-> 500, fontSize |-> 16, lineHeightPx |-> 16, letterSpacingPx |-> 0,
   textAlign |-> "center", verticalAlign |-> "center", whiteSpace |-> "normal",
   color |-> "white", opacity |-> 1]

\* { ...a, ...b } of two objects (functions of their keys)
Spread(a, b) ==
  [f \in DOMAIN a \cup DOMAIN b |-> IF f \in DOMAIN b THEN b[f] ELSE a[f]]

\* a style object that names no field: textStyles undefined or {}
NoStyles == [f \in {} |-> 0]

\* The platform's canvas: ctx.measureText(text) for the style's font, a pure
\* function of the text and the font size.
CanvasAdvance(c) ==
  CASE c = "a"  -> 8
    [] c = "W"  -> 20
    [] c = " "  -> 4
    [] c = "\n" -> 0
    [] c = "?"  -> 8

RECURSIVE CanvasTextWidth(_)
CanvasTextWidth(text) ==
  IF text = <<>> THEN 0 ELSE CanvasAdvance(Head(text)) + CanvasTextWidth(Tail(text))

CanvasAscent == 12
CanvasDescent == 4

getMeasurementFromCanvas(style, text) ==
  LET actualAscent  == Scaled(CanvasAscent, style.fontSize)
      actualDescent == Scaled(CanvasDescent, style.fontSize)
      lineGap       == Max(0, style.lineHeightPx - (actualAscent + actualDescent))
  IN  [width |-> Scaled(CanvasTextWidth(text), style.fontSize),
       actualAscent |-> actualAscent, actualDescent |-> actualDescent,
       lineGap |-> lineGap,
       baselineOffsetTop |-> actualAscent + lineGap \div 2,
       baselineOffsetBottom |-> actualDescent + lineGap \div 2]

\* canvasContext === null: no measurement context has been acquired
NullContext == 0

\* a variant of getContext that asks the platform for a new context at every call
getContextAnew(context, canvases, available) ==
  [canvasContext |-> IF available THEN canvases + 1 ELSE NullContext,
   canvasesCreated |-> canvases + 1,
   thrown |-> ~ available]

\* getContext(): the cached context, or that of a new canvas, which is cached;
\* `available' says whether canvas.getContext('2d') of the platform gives a
\* context.  A context is named by the number of the canvas it belongs to.
getContext(context, canvases, available) ==
  IF context # NullContext
  THEN [canvasContext |-> context, canvasesCreated |-> canvases, thrown |-> FALSE]
  ELSE [canvasContext |-> IF available THEN canvases + 1 ELSE NullContext,
        canvasesCreated |-> canvases + 1,
        thrown |-> ~ available]

\* options.textStyles?.widthPx || canvasRenderMeasurements.width
EffectiveWidthPx(textStyles, canvasWidth) ==
  IF "widthPx" \in DOMAIN textStyles /\ textStyles.widthPx # 0
  THEN textStyles.widthPx ELSE canvasWidth

\* constructDomTextMetrics(options): options = [text, textStyles]
constructDomTextMetrics(options) ==
  LET cssStyles == Spread(DEFAULT_FONT_STYLES, options.textStyles)
      canvasRenderMeasurements == getMeasurementFromCanvas(cssStyles, options.text)
  IN  [text |-> options.text,
       fontCssStyles |-> cssStyles,
       canvasRenderMeasurements |-> canvasRenderMeasurements,
       widthPx |-> EffectiveWidthPx(options.textStyles, canvasRenderMeasurements.width)]

\* ctx.measureText(undefined): the canvas measures the string 'undefined', nine
\* letters of advance 8 at the size of the font
CanvasWidthOfUndefined == 72

\* constructDomTextMetrics(text, styleOptions), the call of MSDFText.fromString: the
\* function takes one options object, so the string is taken for it and the styles
\* are dropped.  Of a string, options.textStyles and options.text are undefined:
\* the styles are the defaults, the canvas measures 'undefined', the text of the
\* metrics is undefined (the line breaking takes it for '', here <<>>) and the
\* width is that of the canvas.
constructDomTextMetricsOfString(text, styleOptions) ==
  LET cssStyles == Spread(DEFAULT_FONT_STYLES, NoStyles)
      canvasRenderMeasurements ==
        [getMeasurementFromCanvas(cssStyles, <<>>)
           EXCEPT !.width = Scaled(CanvasWidthOfUndefined, cssStyles.fontSize)]
  IN  [text |-> <<>>,
       fontCssStyles |-> cssStyles,
       canvasRenderMeasurements |-> canvasRenderMeasurements,
       widthPx |-> EffectiveWidthPx(NoStyles, canvasRenderMeasurements.width)]

(***************************************************************************)
(* measure.ts: the style snapshot of the DOM-driven path.  An element is   *)
(* its text content, the width of its bounding rectangle and its computed  *)
(* style; a length of the style is given as parsePx reads it, the opacity  *)
(* as parseFloat reads it.                                                 *)
(***************************************************************************)
\* NaN: what parsePx gives for 'normal', '', 'initial', 'inherit' and for no number
NaN == -1

\* x || d of a number
OrElse(x, d) == IF x = NaN \/ x = 0 THEN d ELSE x

\* computeLineHeight(style, fontSize): the parsed line height, or 1.2 font sizes
computeLineHeight(style, fontSize) ==
  IF style.lineHeight # NaN THEN style.lineHeight ELSE (fontSize * 6) \div 5

\* parseLetterSpacing(style): parsePx(raw) || 0, and 0 for 'normal' and ''
parseLetterSpacing(style) == OrElse(style.letterSpacing, 0)

\* captureCssStyles(element)
captureCssStyles(element) ==
  LET style    == element.style
      fontSize == OrElse(style.fontSize, 16)
  IN  [widthPx |-> element.width,
       fontSize |-> fontSize,
       lineHeightPx |-> computeLineHeight(style, fontSize),
       letterSpacingPx |-> parseLetterSpacing(style),
       textAlign |-> IF style.textAlign = "" THEN "left" ELSE style.textAlign,
       verticalAlign |-> "top",
       whiteSpace |-> IF style.whiteSpace = "" THEN "normal" ELSE style.whiteSpace,
       color |-> style.color,
       opacity |-> OrElse(style.opacity, 1)]

\* collectDomTextMetrics(element)
collectDomTextMetrics(element) ==
  LET textStyles == captureCssStyles(element)
      canvasRenderMeasurements == getMeasurementFromCanvas(textStyles, element.textContent)
  IN  [text |-> element.textContent,
       fontCssStyles |-> textStyles,
       canvasRenderMeasurements |-> canvasRenderMeasurements,
       widthPx |-> element.width]

(***************************************************************************)
(* Colours. A colour representation is a name; new THREE.Color(c) gives   *)
(* its channels, and the material's color getter gives the name back.      *)
(***************************************************************************)
ColorNames == { "white", "red", "blue" }

\* new THREE.Color(representation): <<r, g, b>>
ThreeColor(c) ==
  CASE c = "white" -> << 1, 1, 1 >>
    [] c = "red"   -> << 1, 0, 0 >>
    [] c = "blue"  -> << 0, 0, 1 >>

\* `#${colorUniform.value.getHexString()}`
HexString(rgb) == CHOOSE c \in ColorNames : ThreeColor(c) = rgb

(***************************************************************************)
(* MSDFTextNodeMaterial: the base colour and opacity, the smoothing flag   *)
(* and the two per-letter overrides.  An override node is "constant" (the  *)
(* vec3(1,1,1) or float(1.0) a null assignment installs), "attribute"      *)
(* (attribute('glyphColors').rgb) or "custom" (a node of the caller).      *)
(***************************************************************************)
\* the font size below which the material smooths by default
SmoothBelowFontSize == 20

\* MSDFTextNodeMaterial.update(metrics)
MaterialUpdate(m, metrics) ==
  [m EXCEPT !.colorUniform = ThreeColor(metrics.fontCssStyles.color),
            !.opacity      = metrics.fontCssStyles.opacity]

NewMaterial(metrics) ==
  [MaterialUpdate([colorUniform |-> ThreeColor("white"), opacity |-> 1, isSmooth |-> FALSE,
                   letterColorNode |-> "constant", letterOpacityNode |-> "constant"], metrics)
   EXCEPT !.isSmooth = metrics.fontCssStyles.fontSize < SmoothBelowFontSize]

\* set letterColorNode(node): null installs the constant
SetLetterColorNode(m, node) ==
  [m EXCEPT !.letterColorNode = IF node = "null" THEN "constant" ELSE node]

\* set letterOpacityNode(node)
SetLetterOpacityNode(m, node) ==
  [m EXCEPT !.letterOpacityNode = IF node = "null" THEN "constant" ELSE node]

\* clearLetterEffects()
MaterialClearLetterEffects(m) ==
  [m EXCEPT !.letterColorNode = "constant", !.letterOpacityNode = "constant"]

\* set isSmooth(val): isSmoothUniform.value = val ? 1 : 0
SetIsSmooth(m, val) == [m EXCEPT !.isSmooth = val]

\* set color(val): colorUniform.value.set(val)
SetColor(m, val) == [m EXCEPT !.colorUniform = ThreeColor(val)]

\* material.opacity = val, the public field of THREE.Material
SetOpacity(m, val) == [m EXCEPT !.opacity = val]

(***************************************************************************)
(* MSDFText, the string-driven entity.  An entity is the record            *)
(* [geometry, material, glyphColors, usingAttributeColors].                *)
(*                                                                         *)
(* A GlyphColorInput is [kind, data]: "null", "undefined", "f32" (a raw    *)
(* Float32Array), "colors" (THREE.Color[], each given by its name) or      *)
(* "entries" ({color, opacity?}[], opacity = NoOpacity when absent).       *)
(***************************************************************************)
NoOpacity == -1

ColorList(names)   == [kind |-> "colors", data |-> names]
EntryList(entries) == [kind |-> "entries", data |-> entries]

\* the truthiness of a GlyphColorInput: null and undefined are falsy, arrays are not
Truthy(input) == input.kind \notin { "null", "undefined" }

\* the four floats processGlyphColors writes for one entry of the list
EntryRGBA(kind, entry) ==
  IF kind = "colors" THEN ThreeColor(entry) \o << 1 >>
  ELSE ThreeColor(entry.color) \o << IF entry.opacity = NoOpacity THEN 1 ELSE entry.opacity >>

\* input[i % input.length], i from 0
CycledEntry(list, i) == list[(i % Len(list)) + 1]

\* a variant of processGlyphColors that reads input[i] and leaves the glyphs past
\* the end of the list at the zeros of a new Float32Array
processGlyphColorsNoCycle(input, glyphCount) ==
  IF ~ Truthy(input) THEN Null
  ELSE IF input.kind = "f32" THEN input
  ELSE IF Len(input.data) > 0
       THEN F32(Flatten([i \in 1..glyphCount |->
                           IF i <= Len(input.data) THEN EntryRGBA(input.kind, input.data[i])
                           ELSE << 0, 0, 0, 0 >>]))
       ELSE Null

\* MSDFText.processGlyphColors(input, glyphCount)
processGlyphColors(input, glyphCount) ==
  IF ~ Truthy(input) THEN Null
  ELSE IF input.kind = "f32" THEN input
  ELSE IF Len(input.data) > 0
       THEN F32(Flatten([i \in 1..glyphCount |-> EntryRGBA(input.kind, CycledEntry(input.data, i - 1))]))
       ELSE Null

\* a variant of _enableAttributeColors that takes the opacity from the attribute too
enableAttributeColorsAndOpacity(self) ==
  IF self.usingAttributeColors THEN self
  ELSE [self EXCEPT !.material = SetLetterOpacityNode(SetLetterColorNode(@, "attribute"), "attribute"),
                    !.usingAttributeColors = TRUE]

\* MSDFText._enableAttributeColors()
enableAttributeColors(self) ==
  IF self.usingAttributeColors THEN self
  ELSE [self EXCEPT !.material = SetLetterColorNode(@, "attribute"),
                    !.usingAttributeColors = TRUE]

\* "this.material.letterColorNode = null; this._usingAttributeColors = false"
disableAttributeColors(self) ==
  [self EXCEPT !.material = SetLetterColorNode(@, "null"),
               !.usingAttributeColors = FALSE]

\* options.textStyles, {} when the options name none
TextStylesOf(options) ==
  IF "textStyles" \in DOMAIN options THEN options.textStyles ELSE NoStyles

\* options.glyphColors, undefined when the options name none
GlyphColorsOf(options) ==
  IF "glyphColors" \in DOMAIN options THEN options.glyphColors ELSE Undefined

\* new MSDFText(options, font): options = [text, textStyles?, glyphColors?]
Construct(options) ==
  LET metrics   == constructDomTextMetrics([text |-> options.text, textStyles |-> TextStylesOf(options)])
      processed == IF Truthy(GlyphColorsOf(options))
                   THEN processGlyphColors(GlyphColorsOf(options), Len(options.text))
                   ELSE Null
      built     == [geometry |-> GeometryUpdate(NewGeometry(processed), metrics, Undefined),
                    material |-> NewMaterial(metrics),
                    glyphColors |-> processed,
                    usingAttributeColors |-> FALSE]
  IN  IF Truthy(processed) THEN enableAttributeColors(built) ELSE built

\* get textStyles() of the geometry: the current css styles without color and opacity
GeometryTextStyles(g) ==
  [f \in DOMAIN g.currentMetrics.fontCssStyles \ { "opacity", "color" } |->
     g.currentMetrics.fontCssStyles[f]]

\* MSDFText.getCurrentOptions()
getCurrentOptions(self) ==
  [text |-> self.geometry.currentMetrics.text,
   textStyles |-> Spread(GeometryTextStyles(self.geometry),
                         [color |-> HexString(self.material.colorUniform),
                          opacity |-> self.material.opacity]),
   glyphColors |-> self.glyphColors]

\* a variant that counts the glyphs of the geometry before the update
UpdateColorCountBefore(self, mergedOptions) == GlyphCount(self.geometry)

\* the glyph count processGlyphColors is given by update
UpdateColorCount(self, mergedOptions) == Len(mergedOptions.text)

\* MSDFText.update(options): options names any of text, textStyles, glyphColors
Update(self, options) ==
  LET currentOptions == getCurrentOptions(self)
      mergedOptions  == [Spread(currentOptions, options) EXCEPT
                           !.textStyles = Spread(currentOptions.textStyles, TextStylesOf(options))]
      metrics        == constructDomTextMetrics(mergedOptions)
      given          == GlyphColorsOf(options)
      processed      == IF Truthy(given)
                        THEN processGlyphColors(given, UpdateColorCount(self, mergedOptions))
                        ELSE Null
      coloured       == IF given.kind = "undefined" THEN self
                        ELSE IF Truthy(processed)
                             THEN enableAttributeColors([self EXCEPT !.glyphColors = processed])
                             ELSE disableAttributeColors([self EXCEPT !.glyphColors = processed])
  IN  [coloured EXCEPT
         !.geometry = GeometryUpdate(@, metrics, coloured.glyphColors),
         !.material = MaterialUpdate(@, metrics)]

\* MSDFText.setGlyphColors(colors)
SetGlyphColors(self, colors) ==
  LET processed == IF Truthy(colors) THEN processGlyphColors(colors, GlyphCount(self.geometry))
                   ELSE Null
      stored    == [self EXCEPT !.glyphColors = processed,
                                !.geometry = GeometrySetGlyphColors(@, processed)]
  IN  IF Truthy(processed) THEN enableAttributeColors(stored) ELSE disableAttributeColors(stored)

\* a variant of the range test that lets index = glyphCount through
GlyphIndexPastCount(index, glyphCount) == index < 0 \/ index > glyphCount

\* "if (index < 0 || index >= glyphCount) return"
GlyphIndexOutOfRange(index, glyphCount) == index < 0 \/ index >= glyphCount

\* a write to a typed array: an index past its end is ignored
TypedArrayWrite(array, offset, value) ==
  IF offset < Len(array) THEN [array EXCEPT ![offset + 1] = value] ELSE array

\* MSDFText.setGlyphColor(index, color, opacity)
SetGlyphColor(self, index, color, opacity) ==
  LET glyphCount == GlyphCount(self.geometry) IN
  IF GlyphIndexOutOfRange(index, glyphCount) THEN self
  ELSE LET initial    == IF ~ Truthy(self.glyphColors)
                         THEN Replicate(glyphCount * 4, 1)
                         ELSE self.glyphColors.data
           threeColor == ThreeColor(color)
           offset     == index * 4
           written    == TypedArrayWrite(TypedArrayWrite(TypedArrayWrite(TypedArrayWrite(
                           initial, offset, threeColor[1]), offset + 1, threeColor[2]),
                           offset + 2, threeColor[3]), offset + 3, opacity)
       IN  enableAttributeColors(
             [self EXCEPT !.glyphColors = F32(written),
                          !.geometry = GeometrySetGlyphColors(@, F32(written))])

\* a variant of clearGlyphColors that leaves the geometry's colour buffer alone
ClearGlyphColorsKeepingBuffer(self) ==
  disableAttributeColors([self EXCEPT !.glyphColors = Null])

\* MSDFText.clearGlyphColors()
ClearGlyphColors(self) ==
  disableAttributeColors([self EXCEPT !.glyphColors = Null,
                                      !.geometry = GeometrySetGlyphColors(@, Null)])

(***************************************************************************)
(* SyncMSDFText: the mesh that follows an element of the page.  Its text   *)
(* and styles are read from the element at construction and at every       *)
(* update; the transform that update gives the mesh is not modelled.       *)
(***************************************************************************)
\* no element
NoElement == [textContent |-> <<>>, width |-> 0, style |-> NoStyles]

\* before `new SyncMSDFText(element, font)' has run
NoSync ==
  [geometry |-> NewGeometry(Null),
   material |-> [colorUniform |-> ThreeColor("white"), opacity |-> 1, isSmooth |-> FALSE,
                 letterColorNode |-> "constant", letterOpacityNode |-> "constant"],
   element |-> NoElement]

\* new SyncMSDFText(element, font)
ConstructSync(element) ==
  LET metrics == collectDomTextMetrics(element) IN
  [geometry |-> GeometryUpdate(NewGeometry(Null), metrics, Undefined),
   material |-> NewMaterial(metrics),
   element  |-> element]

\* SyncMSDFText.update(camera, depthFromCamera) when the element reads as `element'
\* now; this.element is set by the constructor, so the early return is never taken
SyncUpdate(self, element) ==
  LET metrics == collectDomTextMetrics(element) IN
  [geometry |-> GeometryUpdate(self.geometry, metrics, Undefined),
   material |-> MaterialUpdate(self.material, metrics),
   element  |-> element]

(***************************************************************************)
(* The state: one entity with its geometry and material, the last call     *)
(* made (op), the number of calls made since the entity's construction,    *)
(* the measurement context of measure.ts with the number of canvases       *)
(* created for it, and one SyncMSDFText (sync).                            *)
(***************************************************************************)
VARIABLES geometry, material, glyphColors, usingAttributeColors, op, nOps,
          canvasContext, canvasesCreated, sync

vars == << geometry, material, glyphColors, usingAttributeColors, op, nOps,
           canvasContext, canvasesCreated, sync >>

Self ==
  [geometry |-> geometry, material |-> material, glyphColors |-> glyphColors,
   usingAttributeColors |-> usingAttributeColors]

\* the entity is self
Is(self) ==
  /\ geometry = self.geometry
  /\ material = self.material
  /\ glyphColors = self.glyphColors
  /\ usingAttributeColors = self.usingAttributeColors

\* the entity becomes self
Becomes(self) ==
  /\ geometry' = self.geometry
  /\ material' = self.material
  /\ glyphColors' = self.glyphColors
  /\ usingAttributeColors' = self.usingAttributeColors

\* the entity before `new MSDFText(options, font)' has run
Unbuilt ==
  [geometry |-> NewGeometry(Null),
   material |-> [colorUniform |-> ThreeColor("white"), opacity |-> 1, isSmooth |-> FALSE,
                 letterColorNode |-> "constant", letterOpacityNode |-> "constant"],
   glyphColors |-> Null,
   usingAttributeColors |-> FALSE]

\* the module state of measure.ts after a call of getContext
Measured(got) ==
  /\ canvasContext' = got.canvasContext
  /\ canvasesCreated' = got.canvasesCreated

(***************************************************************************)
(* The inputs of the entity specification.                                 *)
(***************************************************************************)
EntityAlphabet == { "a", " " }
EntityTexts == SeqsUpTo(EntityAlphabet, MaxEntityLen)

\* the style objects a caller passes: none, or one naming a single field
EntityStyles ==
  { NoStyles, [widthPx |-> 12], [textAlign |-> "left"] }

\* the glyph colours a caller passes
EntityColorLists ==
  { ColorList(<< "red", "blue" >>),
    EntryList(<< [color |-> "blue", opacity |-> 0] >>),
    EntryList(<< [color |-> "red", opacity |-> NoOpacity], [color |-> "blue", opacity |-> 0] >>) }

EntityColorInputs ==
  EntityColorLists \cup { Null, ColorList(<< >>), F32(<< 0, 0, 1, 1 >>) }

\* the texts without whitespace: those given together with glyph colours, and those
\* of the platform specification
ColouredTexts == { t \in EntityTexts : \A i \in 1..Len(t) : ~ isWhitespace(t[i]) }

ConstructOptions ==
  { [text |-> t, textStyles |-> [widthPx |-> 12]] : t \in EntityTexts }
  \cup { [text |-> t, textStyles |-> st] :
            t \in ColouredTexts, st \in { NoStyles, [textAlign |-> "left"] } }
  \cup { [text |-> t, glyphColors |-> c] : t \in ColouredTexts, c \in EntityColorLists }

UpdateOptions ==
  { NoStyles }
  \cup { [text |-> t] : t \in ColouredTexts }
  \cup { [textStyles |-> st] : st \in EntityStyles }
  \cup { [glyphColors |-> c] : c \in EntityColorInputs }
  \cup { [text |-> t, glyphColors |-> ColorList(<< "red", "blue" >>)] : t \in ColouredTexts }

\* the (color, opacity) pairs given to setGlyphColor
SingleColors == { << "red", 1 >>, << "blue", 0 >> }

GlyphIndexes == -1 .. MaxEntityLen

(***************************************************************************)
(* Init: the entity as its constructor leaves it.                          *)
(***************************************************************************)
Init ==
  \E options \in ConstructOptions :
    /\ Is(Construct(options))
    /\ op = [name |-> "construct", options |-> options]
    /\ nOps = 0
    /\ canvasContext = 1
    /\ canvasesCreated = 1
    /\ sync = NoSync

(***************************************************************************)
(* The calls.  Each records itself in op; an update also records the glyph *)
(* count the buffers had before it and whether it repeats the call before  *)
(* it, clearGlyphColors whether colours were stored.                       *)
(***************************************************************************)
\* the entity has the method update: the MSDFText whose constructor takes options has
\* it, the MSDFText built from metrics (fromString, fromDomElement) has none, and a
\* call of it throws a TypeError before anything is done.  The two are told apart
\* by their material: only the material built from the metrics holds the
\* per-letter nodes.
HasUpdate(self) == self # Unbuilt /\ "letterColorNode" \in DOMAIN self.material

\* update(options) on a platform whose canvas gives a 2D context or not: the
\* measurement comes first, and where getContext throws nothing else is done
Updating(available, options) ==
  /\ nOps < MaxOps
  /\ HasUpdate(Self)
  /\ LET got == getContext(canvasContext, canvasesCreated, available) IN
     /\ Measured(got)
     /\ IF got.thrown
        THEN /\ UNCHANGED << geometry, material, glyphColors, usingAttributeColors >>
             /\ op' = [name |-> "updateFailed", options |-> options, available |-> available]
        ELSE /\ Becomes(Update(Self, options))
             /\ op' = [name |-> "update", options |-> options,
                       countBefore |-> geometry.currentGlyphCount,
                       again |-> (op.name = "update" /\ op.options = options),
                       available |-> available]
  /\ nOps' = nOps + 1
  /\ UNCHANGED sync

DoUpdate == \E options \in UpdateOptions : Updating(TRUE, options)

DoSetGlyphColors ==
  /\ nOps < MaxOps
  /\ \E colors \in EntityColorInputs :
       /\ Becomes(SetGlyphColors(Self, colors))
       /\ op' = [name |-> "setGlyphColors", colors |-> colors]
  /\ nOps' = nOps + 1
  /\ UNCHANGED << canvasContext, canvasesCreated, sync >>

DoSetGlyphColor ==
  /\ nOps < MaxOps
  /\ \E index \in GlyphIndexes, c \in SingleColors :
       /\ Becomes(SetGlyphColor(Self, index, c[1], c[2]))
       /\ op' = [name |-> "setGlyphColor", index |-> index, color |-> c[1], opacity |-> c[2]]
  /\ nOps' = nOps + 1
  /\ UNCHANGED << canvasContext, canvasesCreated, sync >>

DoClearGlyphColors ==
  /\ nOps < MaxOps
  /\ Becomes(ClearGlyphColors(Self))
  /\ op' = [name |-> "clearGlyphColors", hadColors |-> Truthy(glyphColors)]
  /\ nOps' = nOps + 1
  /\ UNCHANGED << canvasContext, canvasesCreated, sync >>

\* the caller assigns material.letterColorNode
DoSetLetterColorNode ==
  /\ nOps < MaxOps
  /\ \E node \in { "custom", "null" } :
       /\ material' = SetLetterColorNode(material, node)
       /\ op' = [name |-> "letterColorNode", node |-> node]
  /\ nOps' = nOps + 1
  /\ UNCHANGED << canvasContext, canvasesCreated, sync >>
  /\ UNCHANGED << geometry, glyphColors, usingAttributeColors >>

\* the caller assigns material.letterOpacityNode
DoSetLetterOpacityNode ==
  /\ nOps < MaxOps
  /\ \E node \in { "custom", "null" } :
       /\ material' = SetLetterOpacityNode(material, node)
       /\ op' = [name |-> "letterOpacityNode", node |-> node]
  /\ nOps' = nOps + 1
  /\ UNCHANGED << canvasContext, canvasesCreated, sync >>
  /\ UNCHANGED << geometry, glyphColors, usingAttributeColors >>

\* the caller calls material.clearLetterEffects()
DoClearLetterEffects ==
  /\ nOps < MaxOps
  /\ material' = MaterialClearLetterEffects(material)
  /\ op' = [name |-> "clearLetterEffects"]
  /\ nOps' = nOps + 1
  /\ UNCHANGED << canvasContext, canvasesCreated, sync >>
  /\ UNCHANGED << geometry, glyphColors, usingAttributeColors >>

\* the values a caller assigns to the colour and the opacity of the material
MaterialColors == { "red" }
MaterialOpacities == { 0 }

\* the caller assigns material.isSmooth
DoSetIsSmooth ==
  /\ nOps < MaxOps
  /\ \E val \in { FALSE } :
       /\ material' = SetIsSmooth(material, val)
       /\ op' = [name |-> "isSmooth", val |-> val]
  /\ nOps' = nOps + 1
  /\ UNCHANGED << canvasContext, canvasesCreated, sync >>
  /\ UNCHANGED << geometry, glyphColors, usingAttributeColors >>

\* the caller assigns material.color
DoSetColor ==
  /\ nOps < MaxOps
  /\ \E val \in MaterialColors :
       /\ material' = SetColor(material, val)
       /\ op' = [name |-> "color", val |-> val]
  /\ nOps' = nOps + 1
  /\ UNCHANGED << canvasContext, canvasesCreated, sync >>
  /\ UNCHANGED << geometry, glyphColors, usingAttributeColors >>

\* the caller assigns material.opacity
DoSetOpacity ==
  /\ nOps < MaxOps
  /\ \E val \in MaterialOpacities :
       /\ material' = SetOpacity(material, val)
       /\ op' = [name |-> "opacity", val |-> val]
  /\ nOps' = nOps + 1
  /\ UNCHANGED << canvasContext, canvasesCreated, sync >>
  /\ UNCHANGED << geometry, glyphColors, usingAttributeColors >>

\* the elements of the page: a text in a box of a width, at a font size and a line
\* height in px or 'normal'; the other properties are those of a style sheet that
\* sets the colour only
ElementOf(text, width, fontSize, lineHeight) ==
  [textContent |-> text, width |-> width,
   style |-> [fontSize |-> fontSize, lineHeight |-> lineHeight, letterSpacing |-> NaN,
              textAlign |-> "start", whiteSpace |-> "normal", color |-> "red", opacity |-> 1]]

PageTexts == { << "a" >>, << "W", "a" >> }

EntryFontSizes == { 16, 24, 32 }

\* boxes 96 px wide at the entry font sizes and a line height of 20 px, and a box
\* 100 px wide at 20 px with the line height 'normal': the width of each box is a
\* whole number of font units (width * info.size / fontSize)
Elements ==
  { ElementOf(t, 96, f, 20) : t \in PageTexts, f \in EntryFontSizes }
  \cup { ElementOf(<< "a" >>, 100, 20, NaN) }

\* the elements a SyncMSDFText follows
SyncElements == { ElementOf(<< "W", "a" >>, 96, 16, 20), ElementOf(<< "a" >>, 100, 20, NaN) }

\* the options of the construction that is still to be made, carried along by the
\* calls that leave the entity alone
PendingOptions == IF "options" \in DOMAIN op THEN op.options ELSE NoStyles

\* a call may create a canvas only while canvases are left
CanvasLeft == canvasContext # NullContext \/ canvasesCreated < MaxCanvases

\* new SyncMSDFText(element, font): collectDomTextMetrics comes first, and where
\* getContext throws neither geometry nor material is built
ConstructingSync(available, element) ==
  /\ nOps < MaxOps
  /\ sync = NoSync
  /\ CanvasLeft
  /\ LET got == getContext(canvasContext, canvasesCreated, available) IN
     /\ Measured(got)
     /\ IF got.thrown
        THEN /\ UNCHANGED sync
             /\ op' = [name |-> "syncFailed", options |-> PendingOptions,
                       element |-> element, available |-> available]
        ELSE /\ sync' = ConstructSync(element)
             /\ op' = [name |-> "newSync", options |-> PendingOptions,
                       element |-> element, available |-> available]
  /\ nOps' = nOps + 1
  /\ UNCHANGED << geometry, material, glyphColors, usingAttributeColors >>

\* SyncMSDFText.update(camera, depthFromCamera), the element reading as `element' now
SyncUpdating(available, element) ==
  /\ nOps < MaxOps
  /\ sync # NoSync
  /\ LET got == getContext(canvasContext, canvasesCreated, available) IN
     /\ Measured(got)
     /\ IF got.thrown
        THEN /\ UNCHANGED sync
             /\ op' = [name |-> "syncUpdateFailed", options |-> PendingOptions,
                       element |-> element, available |-> available]
        ELSE /\ sync' = SyncUpdate(sync, element)
             /\ op' = [name |-> "syncUpdate", options |-> PendingOptions,
                       element |-> element, available |-> available,
                       countBefore |-> sync.geometry.currentGlyphCount]
  /\ nOps' = nOps + 1
  /\ UNCHANGED << geometry, material, glyphColors, usingAttributeColors >>

\* new SyncMSDFText(element, font) beside the entity
DoConstructSync == \E element \in SyncElements : ConstructingSync(TRUE, element)

\* SyncMSDFText.update(camera, depthFromCamera) beside the entity
DoSyncUpdate == \E element \in SyncElements : SyncUpdating(TRUE, element)

Next ==
  \/ DoUpdate
  \/ DoSetGlyphColors
  \/ DoSetGlyphColor
  \/ DoClearGlyphColors
  \/ DoSetLetterColorNode
  \/ DoSetLetterOpacityNode
  \/ DoClearLetterEffects
  \/ DoSetIsSmooth
  \/ DoSetColor
  \/ DoSetOpacity
  \/ DoConstructSync
  \/ DoSyncUpdate

Spec == Init /\ [][Next]_vars

(***************************************************************************)
(* The layout specification: a text of the whole alphabet, a wrap width    *)
(* and a wrap mode are chosen, and the constructor lays the text out.      *)
(***************************************************************************)
Texts == SeqsUpTo(Alphabet, MaxLen)

\* the wrap widths a caller passes: none (the canvas width is taken), one narrower
\* than "W", one that holds "W" but not "Wa"
LayoutWidths == { NoStyles, [widthPx |-> 12], [widthPx |-> 24] }

LayoutModes == { "normal", "pre", "nowrap" }

LayoutAligns == { "left", "center", "right", "start", "end" }

\* a large font on a wide block: the second "W" of "WW" ends at 1604, past the wrap
\* width and within its tolerance
WideStyles ==
  [widthPx |-> 1600, fontSize |-> 640, letterSpacingPx |-> 4, whiteSpace |-> "normal",
   textAlign |-> "left"]

\* a font size between the two smoothing cutoffs, one and a half times the size of
\* the font: "W" ends at 30, "Wa" at 38, past the wrap width
MidStyles ==
  [widthPx |-> 36, fontSize |-> 24, lineHeightPx |-> 0, textAlign |-> "center"]

LayoutOptions ==
  { [text |-> t, textStyles |-> Spread(w, [whiteSpace |-> m, textAlign |-> a])] :
      t \in Texts, w \in LayoutWidths, m \in LayoutModes, a \in LayoutAligns }
  \cup { [text |-> t, textStyles |-> st] : t \in Texts, st \in { WideStyles, MidStyles } }

\* a platform with a canvas, no context acquired yet, and the entity to be built
InitLayout ==
  \E options \in LayoutOptions :
    /\ Is(Unbuilt)
    /\ op = [name |-> "new", options |-> options]
    /\ nOps = 0
    /\ canvasContext = NullContext
    /\ canvasesCreated = 0
    /\ sync = NoSync

\* new MSDFText(options, font) on a platform whose canvas gives a 2D context or
\* not: constructDomTextMetrics comes first, and where getContext throws neither
\* geometry nor material is built.  A caller may try again.
Constructing(available) ==
  /\ Self = Unbuilt
  /\ "options" \in DOMAIN op
  /\ canvasContext # NullContext \/ canvasesCreated < MaxCanvases
  /\ LET got == getContext(canvasContext, canvasesCreated, available) IN
     /\ Measured(got)
     /\ IF got.thrown
        THEN /\ UNCHANGED << geometry, material, glyphColors, usingAttributeColors >>
             /\ op' = [name |-> "failed", options |-> op.options, available |-> available]
        ELSE /\ Becomes(Construct(op.options))
             /\ op' = [name |-> "construct", options |-> op.options, available |-> available]
  /\ UNCHANGED << nOps, sync >>

DoConstruct == Constructing(TRUE)

NextLayout == DoConstruct

SpecLayout == InitLayout /\ [][NextLayout]_vars

(***************************************************************************)
(* The platform specification: the entity is built and updated on a        *)
(* platform whose canvas may give no 2D context.                           *)
(***************************************************************************)
\* the options of the entity built on such a platform: a text without whitespace, or
\* such a text and a wrap width
ContextOptions ==
  { [text |-> t] : t \in ColouredTexts }
  \cup { [text |-> t, textStyles |-> [widthPx |-> 12]] : t \in ColouredTexts }

InitContext ==
  \E options \in ContextOptions :
    /\ Is(Unbuilt)
    /\ op = [name |-> "new", options |-> options]
    /\ nOps = 0
    /\ canvasContext = NullContext
    /\ canvasesCreated = 0
    /\ sync = NoSync

DoConstructOnPlatform == \E available \in BOOLEAN : Constructing(available)

\* the options of the updates on such a platform: none, or a new text
ContextUpdates == { NoStyles } \cup { [text |-> t] : t \in ColouredTexts }

DoUpdateOnPlatform ==
  \E available \in BOOLEAN, options \in ContextUpdates : Updating(available, options)

\* collectDomTextMetrics(element), called by itself: the metrics are returned and the
\* context is cached; where getContext throws nothing is returned
DoCollectDomTextMetrics ==
  \E available \in BOOLEAN, element \in SyncElements :
    /\ nOps < MaxOps
    /\ CanvasLeft
    /\ LET got == getContext(canvasContext, canvasesCreated, available) IN
       /\ Measured(got)
       /\ op' = IF got.thrown
                THEN [name |-> "collectFailed", options |-> PendingOptions,
                      element |-> element, available |-> available]
                ELSE [name |-> "collect", options |-> PendingOptions,
                      element |-> element, available |-> available,
                      metrics |-> collectDomTextMetrics(element)]
    /\ nOps' = nOps + 1
    /\ UNCHANGED << geometry, material, glyphColors, usingAttributeColors, sync >>

DoConstructSyncOnPlatform ==
  \E available \in BOOLEAN, element \in SyncElements : ConstructingSync(available, element)

DoSyncUpdateOnPlatform ==
  \E available \in BOOLEAN, element \in SyncElements : SyncUpdating(available, element)

(***************************************************************************)
(* The metrics-driven entity: the MSDFText whose constructor takes the     *)
(* metrics (the one behind fromString and fromDomElement).  It picks the   *)
(* smoothing flag itself and hands it to the material whose constructor    *)
(* takes (fontAtlas, options).                                             *)
(***************************************************************************)
\* the font size below which the metrics-driven entity smooths
EntitySmoothBelowFontSize == 32

\* new MSDFTextNodeMaterial(fontAtlas, options): options = [color, isSmooth];
\* the flag is uniform(options.isSmooth || defaultOptions.isSmooth)
MaterialFromOptions(options) ==
  [colorUniform |-> ThreeColor(options.color),
   opacity      |-> 1,
   isSmooth     |-> options.isSmooth # 0]

\* new MSDFText(metrics, font)
ConstructFromMetrics(metrics) ==
  LET isSmooth == IF metrics.fontCssStyles.fontSize < EntitySmoothBelowFontSize THEN 1 ELSE 0 IN
  [geometry |-> GeometryUpdate(NewGeometry(Null), metrics, Undefined),
   material |-> MaterialFromOptions([color |-> metrics.fontCssStyles.color, isSmooth |-> isSmooth]),
   glyphColors |-> Null,
   usingAttributeColors |-> FALSE]

\* MSDFText.fromString(text, font, styleOptions)
fromString(text, styleOptions) ==
  ConstructFromMetrics(constructDomTextMetricsOfString(text, styleOptions))

\* MSDFText.fromDomElement(element, font)
fromDomElement(element) ==
  ConstructFromMetrics(collectDomTextMetrics(element))

\* MSDFText.fromString of the text and the styles of the pending options, on a
\* platform whose canvas gives a 2D context or not: the metrics are measured first,
\* and where getContext throws no entity is built
DoFromString ==
  \E available \in BOOLEAN :
    /\ Self = Unbuilt
    /\ "options" \in DOMAIN op
    /\ CanvasLeft
    /\ LET got == getContext(canvasContext, canvasesCreated, available) IN
       /\ Measured(got)
       /\ IF got.thrown
          THEN /\ UNCHANGED << geometry, material, glyphColors, usingAttributeColors >>
               /\ op' = [name |-> "failed", options |-> op.options, available |-> available]
          ELSE /\ Becomes(fromString(op.options.text, TextStylesOf(op.options)))
               /\ op' = [name |-> "fromString", options |-> op.options,
                         available |-> available]
    /\ UNCHANGED << nOps, sync >>

\* MSDFText.fromDomElement of an element of the page, on such a platform
DoFromDomElement ==
  \E available \in BOOLEAN, element \in Elements :
    /\ Self = Unbuilt
    /\ "options" \in DOMAIN op
    /\ CanvasLeft
    /\ LET got == getContext(canvasContext, canvasesCreated, available) IN
       /\ Measured(got)
       /\ IF got.thrown
          THEN /\ UNCHANGED << geometry, material, glyphColors, usingAttributeColors >>
               /\ op' = [name |-> "failed", options |-> op.options, available |-> available]
          ELSE /\ Becomes(fromDomElement(element))
               /\ op' = [name |-> "fromDomElement", options |-> op.options,
                         element |-> element, available |-> available]
    /\ UNCHANGED << nOps, sync >>

NextContext ==
  \/ DoConstructOnPlatform
  \/ DoUpdateOnPlatform
  \/ DoCollectDomTextMetrics
  \/ DoConstructSyncOnPlatform
  \/ DoSyncUpdateOnPlatform
  \/ DoFromString
  \/ DoFromDomElement

SpecContext == InitContext /\ [][NextContext]_vars

(***************************************************************************)
(* The entry specification: the entity is built by the constructor that    *)
(* takes options, by fromString or by fromDomElement.                      *)
(***************************************************************************)
\* layout.ts, the layout module beside the geometry: metrics.size.width / fontSizeScale,
\* the wrap width in the units of the font; the quotient is whole for every width
\* and font size of the entry specification
WrapWidthInFontUnits(metrics) ==
  (metrics.widthPx * FontInfoSize) \div FontSizeScale(metrics)

\* measureRange of layout.ts: the glyph metrics are not scaled and the right edge is
\* compared with the width itself; on whole right edges and whole widths below 200
\* that is the measurement at scale 1, whose tolerance admits no further right edge
measureRangeInFontUnits(letterSpacing, text, start, end, width) ==
  measureRange(FontInfoSize, letterSpacing, text, start, end, width)

\* wordWrap.lines(metrics.text, { width: metrics.size.width / fontSizeScale, mode, measure })
\* of layout.ts, whose measure callback is measureRangeInFontUnits
LayoutLinesInFontUnits(metrics) ==
  wordWrapLines(FontInfoSize, metrics.fontCssStyles.letterSpacingPx, metrics.text,
                WrapWidthInFontUnits(metrics), WrapMode(metrics.fontCssStyles.whiteSpace))

\* the options of the texts built: a font size below both smoothing cutoffs, one
\* between them, one at the upper cutoff
EntryOptions ==
  { [text |-> t, textStyles |-> [fontSize |-> f, widthPx |-> 96]] :
      t \in Texts, f \in EntryFontSizes }

InitEntry ==
  \E options \in EntryOptions :
    /\ Is(Unbuilt)
    /\ op = [name |-> "new", options |-> options]
    /\ nOps = 0
    /\ canvasContext = NullContext
    /\ canvasesCreated = 0
    /\ sync = NoSync

NextEntry ==
  \/ DoConstruct
  \/ DoFromString
  \/ DoFromDomElement

SpecEntry == InitEntry /\ [][NextEntry]_vars

(***************************************************************************)
(* The fill of the fragment shader the material builds: the signed         *)
(* distance of a texel of the atlas.  A channel is the numerator of a      *)
(* level over MaxChannel, the signed distance a numerator over             *)
(* 2 * MaxChannel.                                                         *)
(***************************************************************************)
\* a variant of the median that bounds the third channel from below only
medianOfLowerBound(r, g, b) == Max(Min(r, g), b)

\* median = (r, g, b) => max(min(r, g), min(max(r, g), b))
median(r, g, b) == Max(Min(r, g), Min(Max(r, g), b))

\* sigDist = sub(median(s.r, s.g, s.b), 0.5), over 2 * MaxChannel
sigDist(s) == 2 * median(s.r, s.g, s.b) - MaxChannel

Channels == 0..MaxChannel

\* s = texture(this.map, uv()): the texel of the fragment, not shaded yet
InitShader ==
  \E r \in Channels, g \in Channels, b \in Channels :
    /\ Is(Unbuilt)
    /\ op = [name |-> "texel", s |-> [r |-> r, g |-> g, b |-> b]]
    /\ nOps = 0
    /\ canvasContext = NullContext
    /\ canvasesCreated = 0
    /\ sync = NoSync

\* the fill of the fragment: the signed distance of its texel
DoShade ==
  /\ op.name = "texel"
  /\ op' = [name |-> "shaded", s |-> op.s, sigDist |-> sigDist(op.s)]
  /\ UNCHANGED << geometry, material, glyphColors, usingAttributeColors, nOps,
                  canvasContext, canvasesCreated, sync >>

NextShader == DoShade

SpecShader == InitShader /\ [][NextShader]_vars

(***************************************************************************)
(* The vocabulary of the properties.                                       *)
(***************************************************************************)
\* the four per-vertex buffers the in-place branch writes
WrittenBuffers == { "position", "uv", "center", "glyphColors" }

AllBuffers == WrittenBuffers \cup { "glyphIndices", "index" }

\* the floats per vertex of each per-vertex buffer
ItemSize(name) ==
  CASE name = "position"     -> 3
    [] name = "uv"           -> 2
    [] name = "center"       -> 2
    [] name = "glyphIndices" -> 1
    [] name = "glyphColors"  -> 4

\* the four colour vertices of glyph i (from 0) of a colour buffer
ColourVertices(array, i) == SubSeq(array, 16 * i + 1, 16 * i + 16)

\* (r, g, b, a) at each of the four vertices of a glyph
FourVertices(rgba) == rgba \o rgba \o rgba \o rgba

\* the number of glyphs the layout of the geometry's current metrics has
LaidOutGlyphs(g) == Len(layoutText(g.currentMetrics).glyphs)

(***************************************************************************)
(* C1.  An update that leaves the glyph count as it was keeps the buffer   *)
(* objects of position, uv, center and colour (only their contents are     *)
(* written) and neither replaces nor writes the index buffer and the       *)
(* glyph-index buffer.                                                     *)
(***************************************************************************)
C1_SameCountKeepsBuffers ==
  [][ (op'.name = "update" /\ geometry'.currentGlyphCount = geometry.currentGlyphCount)
      => /\ \A b \in WrittenBuffers :
              /\ geometry'.attributes[b].id = geometry.attributes[b].id
              /\ Len(geometry'.attributes[b].array) = Len(geometry.attributes[b].array)
         /\ geometry'.attributes.index = geometry.attributes.index
         /\ geometry'.attributes.glyphIndices = geometry.attributes.glyphIndices
         /\ geometry'.allocs = geometry.allocs ]_vars

\* an update to textAlign "left" has rewritten the positions of a text of one or
\* more glyphs in the buffers the constructor allocated
C1_Witness ==
  /\ op.name = "update"
  /\ op.options = [textStyles |-> [textAlign |-> "left"]]
  /\ op.countBefore = geometry.currentGlyphCount
  /\ geometry.currentGlyphCount >= 1
  /\ geometry.attributes.position.id = 1
  /\ geometry.attributes.position.array[1] = 0

(***************************************************************************)
(* C2.  An update that changes the glyph count, the first build of the     *)
(* constructor included, allocates all six buffers anew (no buffer object  *)
(* that existed before is kept) with the arrays just built, and the        *)
(* tracked glyph count becomes the count of the new layout.                *)
(***************************************************************************)
C2_NewCountReallocates ==
  /\ op.name = "construct"
       => /\ \A b \in AllBuffers : geometry.attributes[b].id >= 1
          /\ \A b, c \in AllBuffers :
               b # c => geometry.attributes[b].id # geometry.attributes[c].id
          /\ geometry.currentGlyphCount = LaidOutGlyphs(geometry)
  /\ [][ (op'.name = "update" /\ LaidOutGlyphs(geometry') # geometry.currentGlyphCount)
         => /\ \A b \in AllBuffers : geometry'.attributes[b].id > geometry.allocs
            /\ \A b, c \in AllBuffers :
                 b # c => geometry'.attributes[b].id # geometry'.attributes[c].id
            /\ geometry'.currentGlyphCount = LaidOutGlyphs(geometry') ]_vars

\* an update has taken a text of one glyph or more to another count of one or more
C2_Witness ==
  /\ op.name = "update"
  /\ op.countBefore >= 1
  /\ geometry.currentGlyphCount >= 1
  /\ op.countBefore # geometry.currentGlyphCount
  /\ geometry.attributes.position.id > 6

(***************************************************************************)
(* C3.  After the construction and after any sequence of update,           *)
(* setGlyphColors, setGlyphColor and clearGlyphColors, with n the glyph    *)
(* count of the entity: each per-vertex buffer (position, uv, center,      *)
(* glyph index, colour) holds 4 * n vertices, the index buffer holds 6 * n *)
(* entries, and every index entry is in 0 .. 4 * n - 1.                    *)
(***************************************************************************)
C3_BufferSizes ==
  LET n == GlyphCount(geometry) IN
  /\ \A b \in AllBuffers \ { "index" } :
       Len(geometry.attributes[b].array) = ItemSize(b) * 4 * n
  /\ Len(geometry.attributes.index.array) = 6 * n
  /\ \A k \in 1..Len(geometry.attributes.index.array) :
       geometry.attributes.index.array[k] \in 0 .. 4 * n - 1

\* calls have been made on an entity whose glyph count went from one to two
C3_Witness ==
  /\ op.name = "update"
  /\ op.countBefore = 1
  /\ GlyphCount(geometry) = 2
  /\ Len(geometry.attributes.index.array) = 12
  /\ geometry.attributes.index.array[12] = 6

(***************************************************************************)
(* C4.  For every text, wrap width and wrap mode the glyph count of the    *)
(* built entity is the number of characters of the text that have a record *)
(* in the font's character table, and the buffers hold 4 vertices and 6    *)
(* indices for each of them.  The layout does not keep this: it drops the  *)
(* white space it eats at the start of a line, the glyph that alone is     *)
(* wider than the wrap width, and what a "pre" line holds past the width.  *)
(***************************************************************************)
\* the characters of the text that font.chars has a record for
ResolvableCount(text) ==
  Cardinality({ i \in 1..Len(text) : GlyphLookup(CharCode(text[i])) # NoGlyph })

C4_GlyphCountIsResolvableCount ==
  op.name = "construct"
    => LET n == ResolvableCount(op.options.text) IN
       /\ GlyphCount(geometry) = n
       /\ Len(geometry.attributes.position.array) = 3 * 4 * n
       /\ Len(geometry.attributes.index.array) = 6 * n

(***************************************************************************)
(* C5.  setGlyphColor(i, c, o) with 0 <= i < glyphCount sets the four      *)
(* colour vertices of glyph i to (c.r, c.g, c.b, o) and leaves the colour  *)
(* vertices of every other glyph as they were, also after an update that   *)
(* changed the glyph count once colours were stored.  The code writes into *)
(* the colour array stored before that update, which is too short for the  *)
(* glyphs the update added.                                                *)
(***************************************************************************)
C5_SetGlyphColorSetsGlyph ==
  [][ (op'.name = "setGlyphColor" /\ op'.index >= 0 /\ op'.index < GlyphCount(geometry))
      => /\ ColourVertices(geometry'.attributes.glyphColors.array, op'.index)
              = FourVertices(ThreeColor(op'.color) \o << op'.opacity >>)
         /\ \A j \in 0 .. GlyphCount(geometry) - 1 :
              j # op'.index
                => ColourVertices(geometry'.attributes.glyphColors.array, j)
                     = ColourVertices(geometry.attributes.glyphColors.array, j) ]_vars

(***************************************************************************)
(* C6.  setGlyphColor with an index below 0 or at or above the glyph count *)
(* changes nothing: the stored colours, the geometry with its buffers, the *)
(* material and the attribute-colour flag stay as they were.               *)
(***************************************************************************)
C6_OutOfRangeIsNoOp ==
  [][ (op'.name = "setGlyphColor" /\ (op'.index < 0 \/ op'.index >= GlyphCount(geometry)))
      => UNCHANGED << geometry, material, glyphColors, usingAttributeColors >> ]_vars

\* setGlyphColor was called with index = glyphCount on a text of one glyph or more
C6_Witness ==
  /\ op.name = "setGlyphColor"
  /\ op.index = GlyphCount(geometry)
  /\ op.index >= 1

(***************************************************************************)
(* C7.  After clearGlyphColors every colour vertex is (1, 1, 1, 1), the    *)
(* entity stores no colours, and the material's colour override is the     *)
(* constant again, so that the base colour of the material is rendered.    *)
(***************************************************************************)
C7_ClearResetsColours ==
  op.name = "clearGlyphColors"
    => /\ geometry.attributes.glyphColors.array = Replicate(16 * GlyphCount(geometry), 1)
       /\ glyphColors = Null
       /\ geometry.glyphColors = Null
       /\ material.letterColorNode = "constant"
       /\ ~ usingAttributeColors

\* clearGlyphColors was called on a text of one glyph or more that had colours stored
C7_Witness ==
  /\ op.name = "clearGlyphColors"
  /\ op.hadColors
  /\ GlyphCount(geometry) >= 1

(***************************************************************************)
(* C8.  A colour list L of one entry or more, given to the constructor, to *)
(* update or to setGlyphColors, is cycled: glyph i is coloured L[i mod     *)
(* |L|], its alpha the entry's opacity, or 1 where the entry has none.     *)
(***************************************************************************)
\* the colour input of the last call, undefined when the call takes none
SuppliedColors ==
  IF op.name = "setGlyphColors" THEN op.colors
  ELSE IF op.name \in { "construct", "update" } THEN GlyphColorsOf(op.options)
  ELSE Undefined

\* the (r, g, b, a) the list L gives glyph i
ListedRGBA(L, i) ==
  LET entry == L.data[(i % Len(L.data)) + 1] IN
  IF L.kind = "colors" THEN ThreeColor(entry) \o << 1 >>
  ELSE ThreeColor(entry.color) \o << IF entry.opacity = NoOpacity THEN 1 ELSE entry.opacity >>

C8_ListIsCycled ==
  LET L == SuppliedColors IN
  (L.kind \in { "colors", "entries" } /\ Len(L.data) >= 1)
    => \A i \in 0 .. GlyphCount(geometry) - 1 :
         ColourVertices(geometry.attributes.glyphColors.array, i)
           = FourVertices(ListedRGBA(L, i))

\* a list of one entry has coloured a text of two glyphs
C8_Witness ==
  /\ SuppliedColors.kind = "entries"
  /\ Len(SuppliedColors.data) = 1
  /\ GlyphCount(geometry) = 2
  /\ usingAttributeColors

(***************************************************************************)
(* C9.  update called twice in a row with the same options: the second     *)
(* call leaves the contents of all six buffers as the first left them.     *)
(***************************************************************************)
C9_UpdateIsIdempotent ==
  [][ (op.name = "update" /\ op'.name = "update" /\ op'.options = op.options)
      => \A b \in AllBuffers :
           geometry'.attributes[b].array = geometry.attributes[b].array ]_vars

\* an update that names a text and a colour list was repeated and had changed the
\* glyph count the first time
C9_Witness ==
  /\ op.name = "update"
  /\ op.again
  /\ DOMAIN op.options = { "text", "glyphColors" }
  /\ GlyphCount(geometry) = 2
  /\ geometry.attributes.position.id > 6

(***************************************************************************)
(* C10.  update(partial) changes only the style fields partial names; in   *)
(* particular update({}) leaves the layout as it was, the effective wrap   *)
(* width included when the constructor was given no widthPx.  The code     *)
(* rebuilds the options from the css styles, whose widthPx is the default  *)
(* and not the width the constructor measured.                             *)
(***************************************************************************)
C10_EmptyUpdateKeepsLayout ==
  [][ (op'.name = "update" /\ op'.options = NoStyles)
      => /\ geometry'.currentMetrics.widthPx = geometry.currentMetrics.widthPx
         /\ geometry'.currentMetrics.fontCssStyles = geometry.currentMetrics.fontCssStyles
         /\ geometry'.currentMetrics.text = geometry.currentMetrics.text
         /\ geometry'.width = geometry.width
         /\ geometry'.boundingBox = geometry.boundingBox
         /\ \A b \in AllBuffers :
              geometry'.attributes[b].array = geometry.attributes[b].array ]_vars

(***************************************************************************)
(* The vocabulary of the layout properties.                                *)
(***************************************************************************)
\* the layout of the entity's current metrics
CurrentLayout == layoutText(geometry.currentMetrics)

\* the layout of the same metrics with textAlign 'left': the glyphs before alignment
UnalignedLayout ==
  layoutText([geometry.currentMetrics EXCEPT !.fontCssStyles.textAlign = "left"])

\* the glyphs of a layout that lie on line k (from 0)
GlyphsOfLine(layout, k) ==
  { j \in 1..Len(layout.glyphs) : layout.glyphs[j].lineIndex = k }

\* width <= wrapWidth * 1.005
WithinTolerance(width, wrapWidth) == width * 1000 <= wrapWidth * 1005

(***************************************************************************)
(* C11.  In normal mode every line the layout produces has a measured      *)
(* width of at most wrapWidth * 1.005, unless the line holds exactly one   *)
(* glyph and that glyph is wider than the wrap width; the right edge of    *)
(* every glyph placed on such a line (before alignment) obeys the same     *)
(* bound.                                                                  *)
(***************************************************************************)
C11_LinesWithinTolerance ==
  (op.name = "construct" /\ geometry.currentMetrics.fontCssStyles.whiteSpace = "normal")
    => LET wrapWidth == geometry.currentMetrics.widthPx
           measured  == CurrentLayout
           unaligned == UnalignedLayout
       IN  \A k \in 1..Len(measured.lines) :
             \/ /\ WithinTolerance(measured.lines[k].width, wrapWidth)
                /\ \A j \in GlyphsOfLine(unaligned, k - 1) :
                     WithinTolerance(unaligned.glyphs[j].bottomLeftPosition.x
                                       + unaligned.glyphs[j].size.width, wrapWidth)
             \/ /\ Cardinality(GlyphsOfLine(unaligned, k - 1)) = 1
                /\ \A j \in GlyphsOfLine(unaligned, k - 1) :
                     unaligned.glyphs[j].size.width > wrapWidth

\* a text was wrapped into two lines, one of them wider than the wrap width and
\* within its tolerance
C11_Witness ==
  /\ op.name = "construct"
  /\ geometry.currentMetrics.fontCssStyles.whiteSpace = "normal"
  /\ Len(CurrentLayout.lines) = 2
  /\ CurrentLayout.lines[1].width > geometry.currentMetrics.widthPx
  /\ Len(CurrentLayout.glyphs) = 3

(***************************************************************************)
(* C12.  In normal mode a character the font resolves whose glyph alone is *)
(* wider than the wrap width with its tolerance is still placed, alone on  *)
(* a line of its own, and the position buffer holds its four vertices.     *)
(* The code measures such a glyph as an empty range and places nothing.    *)
(***************************************************************************)
\* the positions (from 1) of the text whose glyph alone exceeds the wrap width
WideCharacters(metrics) ==
  { i \in 1..Len(metrics.text) :
      LET glyph == GlyphLookup(CharCode(metrics.text[i])) IN
      /\ glyph # NoGlyph
      /\ ~ WithinTolerance(Scaled(glyph.width, FontSizeScale(metrics)), metrics.widthPx) }

\* the placed glyphs that alone exceed the wrap width
WideGlyphs(metrics, layout) ==
  { j \in 1..Len(layout.glyphs) :
      ~ WithinTolerance(layout.glyphs[j].size.width, metrics.widthPx) }

C12_WideGlyphIsPlaced ==
  (op.name = "construct" /\ geometry.currentMetrics.fontCssStyles.whiteSpace = "normal")
    => LET metrics == geometry.currentMetrics
           layout  == CurrentLayout
       IN  /\ Cardinality(WideGlyphs(metrics, layout)) = Cardinality(WideCharacters(metrics))
           /\ \A j \in WideGlyphs(metrics, layout) :
                GlyphsOfLine(layout, layout.glyphs[j].lineIndex) = { j }
           /\ Len(geometry.attributes.position.array)
                >= 3 * 4 * Cardinality(WideCharacters(metrics))

(***************************************************************************)
(* C13.  In pre mode lines break at newline characters only, and the wrap  *)
(* width does not limit a line: every line starts at the start of the text *)
(* or right after a newline, and every character the font resolves is      *)
(* placed, also where a segment is wider than the wrap width.  The code    *)
(* hands the wrap width to the measurement, which cuts each segment at it. *)
(***************************************************************************)
C13_PreIgnoresWidth ==
  (op.name = "construct" /\ geometry.currentMetrics.fontCssStyles.whiteSpace = "pre")
    => LET metrics == geometry.currentMetrics
           layout  == CurrentLayout
       IN  /\ \A k \in 1..Len(layout.lines) :
                \/ layout.lines[k].start = 0
                \/ CharAt(metrics.text, layout.lines[k].start - 1) = "\n"
           /\ Len(layout.glyphs) = ResolvableCount(metrics.text)
           /\ GlyphCount(geometry) = ResolvableCount(metrics.text)

(***************************************************************************)
(* C14.  In nowrap mode the layout has exactly one line, for every text    *)
(* and every wrap width.  The code breaks at every newline character in    *)
(* this mode too, and gives the empty text no line.                        *)
(***************************************************************************)
C14_NowrapIsOneLine ==
  (op.name = "construct" /\ geometry.currentMetrics.fontCssStyles.whiteSpace = "nowrap")
    => /\ Len(CurrentLayout.lines) = 1
       /\ \A j \in 1..Len(CurrentLayout.glyphs) : CurrentLayout.glyphs[j].lineIndex = 0
       /\ geometry.height = FontLineHeight(geometry.currentMetrics)

(***************************************************************************)
(* C15.  The layout of the empty text is one line of empty range and no    *)
(* glyph, so that the block of an empty text is one line height high.  The *)
(* code gives the empty text no line and a block of height 0.              *)
(***************************************************************************)
C15_EmptyTextIsOneLine ==
  (op.name = "construct" /\ geometry.currentMetrics.text = << >>)
    => /\ Len(CurrentLayout.lines) = 1
       /\ \A k \in 1..Len(CurrentLayout.lines) :
            CurrentLayout.lines[k].start = CurrentLayout.lines[k].end
       /\ Len(CurrentLayout.glyphs) = 0
       /\ GlyphCount(geometry) = 0
       /\ geometry.height = FontLineHeight(geometry.currentMetrics)

(***************************************************************************)
(* C16.  With textAlign 'center' and verticalAlign 'center' the bounding   *)
(* box of the geometry is symmetric about the layout origin: its min       *)
(* corner is (-width/2, -height/2), its max corner (width/2, height/2),    *)
(* for every block width and height.                                       *)
(***************************************************************************)
C16_CentredBoundingBox ==
  (geometry.textAlign = "center" /\ geometry.verticalAlign = "center")
    => /\ 2 * geometry.boundingBox.min[1] = - geometry.width
       /\ 2 * geometry.boundingBox.min[2] = - geometry.height
       /\ 2 * geometry.boundingBox.max[1] = geometry.width
       /\ 2 * geometry.boundingBox.max[2] = geometry.height
       /\ geometry.boundingBox.min[1] + geometry.boundingBox.max[1] = 0
       /\ geometry.boundingBox.min[2] + geometry.boundingBox.max[2] = 0

\* an update has laid out a centred block of non-zero width and height
C16_Witness ==
  /\ op.name = "update"
  /\ geometry.textAlign = "center"
  /\ geometry.verticalAlign = "center"
  /\ geometry.width = 12
  /\ geometry.height = 32
  /\ geometry.boundingBox = [min |-> << -6, -16 >>, max |-> << 6, 16 >>]

(***************************************************************************)
(* C17.  Every glyph of a line is moved by one x-offset: 0 for textAlign   *)
(* left/start, (wrapWidth - lineWidth) / 2 for center and wrapWidth -      *)
(* lineWidth for right/end, lineWidth being the largest right edge of the  *)
(* line's glyphs before alignment; y positions and sizes do not depend on  *)
(* textAlign.                                                              *)
(***************************************************************************)
\* the largest right edge of the glyphs of line k (from 0) of an unaligned layout
LineWidthBeforeAlignment(unaligned, k) ==
  LET rights == { unaligned.glyphs[j].bottomLeftPosition.x + unaligned.glyphs[j].size.width :
                    j \in GlyphsOfLine(unaligned, k) }
  IN  CHOOSE r \in rights : \A q \in rights : q <= r

\* the glyph was moved by twice `twiceOffset / 2` along x, and by nothing else
MovedBy(aligned, unaligned, twiceOffset) ==
  /\ 2 * (aligned.bottomLeftPosition.x - unaligned.bottomLeftPosition.x) = twiceOffset
  /\ aligned.bottomLeftPosition.y = unaligned.bottomLeftPosition.y
  /\ aligned.size = unaligned.size
  /\ aligned.lineIndex = unaligned.lineIndex

C17_UniformAlignmentOffset ==
  (op.name = "construct")
    => LET metrics   == geometry.currentMetrics
           textAlign == metrics.fontCssStyles.textAlign
           aligned   == CurrentLayout
           unaligned == UnalignedLayout
       IN  /\ Len(aligned.glyphs) = Len(unaligned.glyphs)
           /\ aligned.lines = unaligned.lines
           /\ \A j \in 1..Len(unaligned.glyphs) :
                LET lineWidth == LineWidthBeforeAlignment(unaligned, unaligned.glyphs[j].lineIndex)
                IN  MovedBy(aligned.glyphs[j], unaligned.glyphs[j],
                            CASE textAlign \in { "left", "start" } -> 0
                              [] textAlign = "center"              -> metrics.widthPx - lineWidth
                              [] textAlign \in { "right", "end" }  -> 2 * (metrics.widthPx - lineWidth))

\* a centred text of two lines of different widths: the glyphs of the two lines are
\* moved by different offsets
C17_Witness ==
  /\ op.name = "construct"
  /\ geometry.currentMetrics.fontCssStyles.textAlign = "center"
  /\ Len(CurrentLayout.lines) = 2
  /\ \E i, j \in 1..Len(CurrentLayout.glyphs) :
       /\ CurrentLayout.glyphs[i].lineIndex = 0
       /\ CurrentLayout.glyphs[j].lineIndex = 1
       /\ CurrentLayout.glyphs[i].bottomLeftPosition.x - UnalignedLayout.glyphs[i].bottomLeftPosition.x > 0
       /\ CurrentLayout.glyphs[j].bottomLeftPosition.x - UnalignedLayout.glyphs[j].bottomLeftPosition.x > 0
       /\ CurrentLayout.glyphs[i].bottomLeftPosition.x - UnalignedLayout.glyphs[i].bottomLeftPosition.x
            # CurrentLayout.glyphs[j].bottomLeftPosition.x - UnalignedLayout.glyphs[j].bottomLeftPosition.x

(***************************************************************************)
(* C18.  When the style given to the constructor names no textAlign, the   *)
(* layout is left-aligned: the alignment offset of every line is 0, so     *)
(* every glyph stands where the unaligned layout puts it.  The code takes  *)
(* textAlign from DEFAULT_FONT_STYLES, which says 'center'.                *)
(***************************************************************************)
C18_OmittedTextAlignIsLeft ==
  (op.name = "construct" /\ "textAlign" \notin DOMAIN TextStylesOf(op.options))
    => /\ geometry.currentMetrics.fontCssStyles.textAlign \in { "left", "start" }
       /\ \A j \in 1..Len(CurrentLayout.glyphs) :
            CurrentLayout.glyphs[j].bottomLeftPosition.x
              = UnalignedLayout.glyphs[j].bottomLeftPosition.x

(***************************************************************************)
(* C19.  A character whose code the font does not resolve is skipped in    *)
(* measurement and in placement alike: it gives no placed glyph, moves the *)
(* pen by nothing, adds nothing to the width of its line, and the next     *)
(* resolved glyph gets no kerning.  So on every line the placed glyphs are *)
(* the resolved characters of the line's range in order; each stands at    *)
(* the sum of the advances of the resolved characters before it on the     *)
(* line, plus the kernings of the pairs of resolved characters adjacent in *)
(* the text, plus its own x offset; and the measured width of the line is  *)
(* the largest right edge of these glyphs.                                 *)
(***************************************************************************)
\* the font resolves the character at position i (from 0)
Resolved(text, i) == i < Len(text) /\ GlyphLookup(CharCodeAt(text, i)) # NoGlyph

\* the resolved positions of the range [start, end)
ResolvedPositions(text, start, end) == { i \in start..(end - 1) : Resolved(text, i) }

\* the advance of the character at position i: nothing where it is not resolved
AdvanceAt(metrics, i) ==
  IF Resolved(metrics.text, i)
  THEN Scaled(GlyphLookup(CharCodeAt(metrics.text, i)).xadvance, FontSizeScale(metrics))
         + metrics.fontCssStyles.letterSpacingPx
  ELSE 0

\* the kerning the character at position i gets on a line that starts at start:
\* that of the pair (i - 1, i) where both are resolved and on the line
KerningAt(metrics, start, i) ==
  IF i > start /\ Resolved(metrics.text, i - 1) /\ Resolved(metrics.text, i)
  THEN getKerningAmount(GlyphLookup(CharCodeAt(metrics.text, i - 1)),
                        GlyphLookup(CharCodeAt(metrics.text, i)))
  ELSE 0

\* the pen at which the character at position i of a line starting at start is drawn
RECURSIVE PenAt(_, _, _)
PenAt(metrics, start, i) ==
  IF i <= start THEN 0
  ELSE PenAt(metrics, start, i - 1) + AdvanceAt(metrics, i - 1) + KerningAt(metrics, start, i)

\* the glyph of line k (from 0) of the layout that is number rank (from 0) on it
GlyphOfRank(layout, k, rank) ==
  { j \in GlyphsOfLine(layout, k) :
      Cardinality({ q \in GlyphsOfLine(layout, k) : q < j }) = rank }

\* the largest right edge of the glyphs of line k (from 0), 0 on a line without glyphs
RightEdgeOfLine(unaligned, k) ==
  IF GlyphsOfLine(unaligned, k) = {} THEN 0 ELSE LineWidthBeforeAlignment(unaligned, k)

\* line k (from 1) of the unaligned layout holds the resolved characters of its range
LineSkipsUnresolved(metrics, unaligned, k) ==
  LET start    == unaligned.lines[k].start
      resolved == ResolvedPositions(metrics.text, start, unaligned.lines[k].end)
  IN  /\ Cardinality(GlyphsOfLine(unaligned, k - 1)) = Cardinality(resolved)
      /\ \A i \in resolved :
           \A j \in GlyphOfRank(unaligned, k - 1, Cardinality({ q \in resolved : q < i })) :
             /\ unaligned.glyphs[j].code = CharCodeAt(metrics.text, i)
             /\ unaligned.glyphs[j].bottomLeftPosition.x
                  = PenAt(metrics, start, i)
                      + Scaled(GlyphLookup(CharCodeAt(metrics.text, i)).xoffset, FontSizeScale(metrics))
      /\ unaligned.lines[k].width = RightEdgeOfLine(unaligned, k - 1)

C19_UnresolvedIsSkipped ==
  (op.name = "construct")
    => /\ \A j \in 1..Len(UnalignedLayout.glyphs) :
            GlyphLookup(UnalignedLayout.glyphs[j].code) # NoGlyph
       /\ \A k \in 1..Len(UnalignedLayout.lines) :
            LineSkipsUnresolved(geometry.currentMetrics, UnalignedLayout, k)
       /\ GlyphCount(geometry) = Len(UnalignedLayout.glyphs)

\* 'W?a' on one line: two glyphs, 'a' at the advance of 'W' without the kerning of
\* the pair (W, a), and a line as wide as the right edge of 'a'
C19_Witness ==
  /\ op.name = "construct"
  /\ geometry.currentMetrics.text = << "W", "?", "a" >>
  /\ Len(UnalignedLayout.lines) = 1
  /\ Len(UnalignedLayout.glyphs) = 2
  /\ UnalignedLayout.glyphs[2].bottomLeftPosition.x = 20
  /\ UnalignedLayout.lines[1].width = 28
  /\ GlyphCount(geometry) = 2

(***************************************************************************)
(* C20.  Where the platform gives no 2D context and none is cached, the    *)
(* construction of the entity fails before geometry or material is built;  *)
(* once a context is acquired, every later measurement uses that context   *)
(* and no other canvas is created, whatever the platform would give.       *)
(***************************************************************************)
\* the calls that build a text entity, and the names of the calls that threw
ConstructionCalls == { "construct", "fromString", "fromDomElement" }
ThrownCalls == { "failed", "updateFailed", "collectFailed", "syncFailed", "syncUpdateFailed" }

C20_ContextAcquiredOnce ==
  [][ /\ (canvasContext = NullContext /\ op'.name \in ConstructionCalls \cup { "failed" }
            /\ ~ op'.available)
           => /\ op'.name = "failed"
              /\ Self' = Unbuilt
              /\ canvasContext' = NullContext
      /\ (canvasContext = NullContext /\ op'.name \in { "newSync", "syncFailed" }
            /\ ~ op'.available)
           => /\ op'.name = "syncFailed"
              /\ sync' = NoSync
              /\ canvasContext' = NullContext
      /\ (op'.name = "failed") => (Self' = Unbuilt /\ Self = Unbuilt)
      /\ (op'.name = "syncFailed") => (sync' = NoSync /\ sync = NoSync)
      /\ (op'.name \in ConstructionCalls \cup { "update", "collect", "newSync", "syncUpdate" })
           => (canvasContext' # NullContext)
      /\ (canvasContext # NullContext)
           => /\ canvasContext' = canvasContext
              /\ canvasesCreated' = canvasesCreated
              /\ op'.name \notin ThrownCalls ]_vars

\* a first construction failed, a second acquired the context of the second canvas,
\* and an update on a platform that gives no context any more was measured with it
C20_Witness ==
  /\ op.name = "update"
  /\ ~ op.available
  /\ canvasContext = 2
  /\ canvasesCreated = 2
  /\ geometry.currentGlyphCount = 2

(***************************************************************************)
(* C21.  The colour override and the opacity override of the material are  *)
(* independent: setGlyphColors, setGlyphColor, clearGlyphColors and an     *)
(* update that carries glyphColors leave the installed per-letter opacity  *)
(* override as it was, be it the constant or a custom node.                *)
(***************************************************************************)
\* the step is one of the calls that set or clear the glyph colours
ColourCall(o) ==
  \/ o.name \in { "setGlyphColors", "setGlyphColor", "clearGlyphColors" }
  \/ o.name = "update" /\ "glyphColors" \in DOMAIN o.options

C21_ColourCallsKeepOpacityNode ==
  [][ ColourCall(op') => material'.letterOpacityNode = material.letterOpacityNode ]_vars

\* glyph colours were set on an entity with a custom opacity node: the colour comes
\* from the attribute, the opacity node is still the custom one
C21_Witness ==
  /\ op.name \in { "setGlyphColors", "setGlyphColor" }
  /\ usingAttributeColors
  /\ material.letterColorNode = "attribute"
  /\ material.letterOpacityNode = "custom"

(***************************************************************************)
(* C22.  setGlyphColors, setGlyphColor and clearGlyphColors do not lay the *)
(* text out again: position, uv, center, glyph-index and index buffers     *)
(* (objects and contents), the glyph count, the retained metrics and the   *)
(* bounding box stay as they were, and the colours are written into the    *)
(* colour buffer object that exists, which is not replaced.                *)
(***************************************************************************)
C22_ColourCallsKeepLayout ==
  [][ (op'.name \in { "setGlyphColors", "setGlyphColor", "clearGlyphColors" })
      => /\ \A b \in AllBuffers \ { "glyphColors" } :
              geometry'.attributes[b] = geometry.attributes[b]
         /\ geometry'.currentGlyphCount = geometry.currentGlyphCount
         /\ geometry'.currentMetrics = geometry.currentMetrics
         /\ geometry'.boundingBox = geometry.boundingBox
         /\ << geometry'.width, geometry'.height, geometry'.textAlign, geometry'.verticalAlign >>
              = << geometry.width, geometry.height, geometry.textAlign, geometry.verticalAlign >>
         /\ geometry'.attributes.glyphColors.id = geometry.attributes.glyphColors.id
         /\ Len(geometry'.attributes.glyphColors.array) = Len(geometry.attributes.glyphColors.array)
         /\ geometry'.allocs = geometry.allocs ]_vars

\* setGlyphColors has written a colour other than white into the colour buffer the
\* constructor allocated, on a text of one glyph or more
C22_Witness ==
  /\ op.name = "setGlyphColors"
  /\ GlyphCount(geometry) >= 1
  /\ geometry.attributes.glyphColors.id = 5
  /\ geometry.allocs = 6
  /\ geometry.attributes.glyphColors.array # Replicate(16 * GlyphCount(geometry), 1)

(***************************************************************************)
(* C23.  Right after the construction of a text entity its smoothing is on *)
(* exactly when the font size asked for is below 20 px.  The entity built  *)
(* from metrics picks the flag with a cutoff of 32 px.                     *)
(***************************************************************************)
C23_SmoothBelowTwenty ==
  (op.name \in { "construct", "fromString", "fromDomElement" })
    => (material.isSmooth <=> geometry.currentMetrics.fontCssStyles.fontSize < 20)

(***************************************************************************)
(* C24.  Placement and measurement agree: on every line the line breaking  *)
(* produces, the glyphs placed are the resolvable characters of the line's *)
(* range in their order, and the line width the placement computes (the    *)
(* largest right edge before alignment) is the width measureRange reports  *)
(* for that range, at every font size scale, kerning and letter spacing.   *)
(***************************************************************************)
\* the placement loop of layoutText on line k (from 1) of the lines
PlacedLine(metrics, lines, k) ==
  PlaceLine(metrics, k - 1, lines[k].end, lines[k].start, 0, 0, NoGlyph, 0, <<>>)

\* the resolved position of the given rank (from 0) among the resolved positions
ResolvedOfRank(resolved, rank) ==
  CHOOSE i \in resolved : Cardinality({ q \in resolved : q < i }) = rank

\* the placement of line k holds the resolved characters of the range and is as wide
\* as the measurement of the range says
PlacementAgrees(metrics, lines, k, measured) ==
  LET placed   == PlacedLine(metrics, lines, k)
      resolved == ResolvedPositions(metrics.text, lines[k].start, lines[k].end)
  IN  /\ Len(placed.glyphs) = Cardinality(resolved)
      /\ \A j \in 1..Len(placed.glyphs) :
           placed.glyphs[j].code = CharCodeAt(metrics.text, ResolvedOfRank(resolved, j - 1))
      /\ measured.end = lines[k].end
      /\ placed.lineWidth = measured.width

\* the lines of the entity's metrics, from the line breaking of the layout it was built with
LinesOfEntry ==
  IF op.name \in { "fromString", "fromDomElement" }
  THEN LayoutLinesInFontUnits(geometry.currentMetrics)
  ELSE LayoutLines(geometry.currentMetrics)

\* what the measure callback of that layout reports for the range of line k
MeasuredOfEntry(lines, k) ==
  LET metrics == geometry.currentMetrics IN
  IF op.name \in { "fromString", "fromDomElement" }
  THEN measureRangeInFontUnits(metrics.fontCssStyles.letterSpacingPx, metrics.text,
                               lines[k].start, lines[k].end, MAX_VALUE)
  ELSE measureRange(FontSizeScale(metrics), metrics.fontCssStyles.letterSpacingPx, metrics.text,
                    lines[k].start, lines[k].end, MAX_VALUE)

C24_PlacementAgreesWithMeasurement ==
  (op.name \in { "construct", "fromString", "fromDomElement" })
    => \A k \in 1..Len(LinesOfEntry) :
         PlacementAgrees(geometry.currentMetrics, LinesOfEntry, k, MeasuredOfEntry(LinesOfEntry, k))

(***************************************************************************)
(* C25.  Of the n glyphs of the layout, glyph k (from 0) has its four      *)
(* vertices at the vertex positions 4k .. 4k+3 of the position buffer, in  *)
(* the order top-left, top-right, bottom-right, bottom-left, each computed *)
(* from the glyph's bottom-left anchor and its size, with z = 0; and its   *)
(* six index entries are (4k, 4k+2, 4k+1, 4k, 4k+3, 4k+2).                 *)
(***************************************************************************)
\* vertex v (from 0) of the position buffer, as << x, y, z >>
VertexAt(positions, v) == << positions[3 * v + 1], positions[3 * v + 2], positions[3 * v + 3] >>

\* glyph k (from 0) of the layout has its quad in the position and index buffers
QuadOfGlyphEmitted(layout, positions, indices, k) ==
  LET glyph  == layout.glyphs[k + 1]
      left   == glyph.bottomLeftPosition.x
      bottom == glyph.bottomLeftPosition.y
      right  == left + glyph.size.width
      top    == bottom + glyph.size.height
  IN  /\ VertexAt(positions, 4 * k)     = << left, top, 0 >>
      /\ VertexAt(positions, 4 * k + 1) = << right, top, 0 >>
      /\ VertexAt(positions, 4 * k + 2) = << right, bottom, 0 >>
      /\ VertexAt(positions, 4 * k + 3) = << left, bottom, 0 >>
      /\ SubSeq(indices, 6 * k + 1, 6 * k + 6)
           = << 4 * k, 4 * k + 2, 4 * k + 1, 4 * k, 4 * k + 3, 4 * k + 2 >>

\* every glyph of the layout has its quad in the buffers
QuadsEmitted(layout, positions, indices) ==
  /\ Len(positions) = 12 * Len(layout.glyphs)
  /\ Len(indices) = 6 * Len(layout.glyphs)
  /\ \A k \in 0..(Len(layout.glyphs) - 1) : QuadOfGlyphEmitted(layout, positions, indices, k)

C25_QuadVerticesAndIndices ==
  (op.name = "construct")
    => QuadsEmitted(CurrentLayout, geometry.attributes.position.array,
                    geometry.attributes.index.array)

\* 'aW' centred on one line: the quad of 'W', the second glyph, lies at the vertex
\* positions 4 .. 7 with its left edge right of the origin, left of its right edge,
\* its top above its bottom, and its index entries count from vertex 4
C25_Witness ==
  /\ op.name = "construct"
  /\ geometry.currentMetrics.text = << "a", "W" >>
  /\ geometry.currentMetrics.fontCssStyles.textAlign = "center"
  /\ GlyphCount(geometry) = 2
  /\ VertexAt(geometry.attributes.position.array, 4)[1]
       < VertexAt(geometry.attributes.position.array, 5)[1]
  /\ VertexAt(geometry.attributes.position.array, 4)[2]
       > VertexAt(geometry.attributes.position.array, 7)[2]
  /\ VertexAt(geometry.attributes.position.array, 4)[1] > 0
  /\ SubSeq(geometry.attributes.index.array, 7, 12) = << 4, 6, 5, 4, 7, 6 >>

(***************************************************************************)
(* C26.  The ordinals of the glyphs are dense and follow the text across   *)
(* the lines: the k-th placed glyph (from 0) has index k, the placed       *)
(* glyphs are the resolved characters of the lines' ranges in text order   *)
(* (an unresolved character takes no ordinal), the line indices do not     *)
(* decrease with k, and the glyph-index buffer holds k at the four         *)
(* vertices of glyph k.                                                    *)
(***************************************************************************)
\* the character codes of the resolved characters of [start, end), in text order
RECURSIVE ResolvedCodes(_, _, _)
ResolvedCodes(text, start, end) ==
  IF start >= end THEN <<>>
  ELSE (IF Resolved(text, start) THEN << CharCodeAt(text, start) >> ELSE <<>>)
         \o ResolvedCodes(text, start + 1, end)

\* the character codes of the resolved characters of all the lines, line after line
CodesOfLines(text, lines) ==
  Flatten([k \in 1..Len(lines) |-> ResolvedCodes(text, lines[k].start, lines[k].end)])

\* the ordinals of the glyphs of the layout and the glyph-index buffer built from them
DenseOrdinals(text, layout, glyphIndices) ==
  LET n == Len(layout.glyphs) IN
  /\ [j \in 1..n |-> layout.glyphs[j].code] = CodesOfLines(text, layout.lines)
  /\ \A j \in 1..n : layout.glyphs[j].index = j - 1
  /\ \A j \in 1..n : layout.glyphs[j].lineIndex \in 0..(Len(layout.lines) - 1)
  /\ \A j \in 1..(n - 1) : layout.glyphs[j].lineIndex <= layout.glyphs[j + 1].lineIndex
  /\ Len(glyphIndices) = 4 * n
  /\ \A k \in 0..(n - 1) : \A v \in 1..4 : glyphIndices[4 * k + v] = k

C26_OrdinalsAreDense ==
  (op.name = "construct")
    => DenseOrdinals(geometry.currentMetrics.text, CurrentLayout,
                     geometry.attributes.glyphIndices.array)

\* a text with a character the font does not resolve, laid out on two lines with one
\* glyph each: the glyph of the second line has ordinal 1
C26_Witness ==
  /\ op.name = "construct"
  /\ \E i \in 1..Len(geometry.currentMetrics.text) : geometry.currentMetrics.text[i] = "?"
  /\ Len(CurrentLayout.glyphs) = 2
  /\ CurrentLayout.glyphs[1].lineIndex = 0
  /\ CurrentLayout.glyphs[2].lineIndex = 1
  /\ CurrentLayout.glyphs[2].index = 1
  /\ geometry.attributes.glyphIndices.array = << 0, 0, 0, 0, 1, 1, 1, 1 >>

(***************************************************************************)
(* C27.  The width of the laid-out block is the wrap width of the metrics  *)
(* (the configured widthPx where one is configured) whatever the text, its *)
(* height is the effective line height times the number of lines, where    *)
(* the effective line height is the line height of the style where that is *)
(* set (not 0) and the line height of the font otherwise, and the top of   *)
(* line l is at y = -(l * effective line height): every glyph of line l    *)
(* has its top edge its scaled y offset below that, moved by the baseline  *)
(* offset of the block.                                                    *)
(***************************************************************************)
\* the line height of the style where it is set, else that of the font
EffectiveLineHeight(fontCssStyles) ==
  IF fontCssStyles.lineHeightPx # 0 THEN fontCssStyles.lineHeightPx ELSE FontCommon.lineHeight

\* the top of the line of the glyph, from the glyph's top edge: the y offset of the
\* glyph and the baseline offset of the block taken back
LineTopOf(metrics, glyph) ==
  glyph.bottomLeftPosition.y + glyph.size.height
    + Scaled(glyph.atlas.yoffset, metrics.fontCssStyles.fontSize)
    - (Scaled(FontCommon.base, metrics.fontCssStyles.fontSize)
         - metrics.canvasRenderMeasurements.baselineOffsetTop)

\* width, height and line tops of the block of the metrics
BlockOfLines(metrics, layout, width, height) ==
  /\ width = metrics.widthPx
  /\ height = EffectiveLineHeight(metrics.fontCssStyles) * Len(layout.lines)
  /\ \A j \in 1..Len(layout.glyphs) :
       LineTopOf(metrics, layout.glyphs[j])
         = - (layout.glyphs[j].lineIndex * EffectiveLineHeight(metrics.fontCssStyles))

C27_BlockSize ==
  (op.name = "construct")
    => /\ BlockOfLines(geometry.currentMetrics, CurrentLayout, geometry.width, geometry.height)
       /\ ("widthPx" \in DOMAIN TextStylesOf(op.options) /\ TextStylesOf(op.options).widthPx # 0)
            => geometry.width = TextStylesOf(op.options).widthPx

\* a text of two lines in a style without a line height: the block is 36 wide and two
\* line heights of the font high, and a glyph lies on the second line
C27_Witness ==
  /\ op.name = "construct"
  /\ geometry.currentMetrics.fontCssStyles.lineHeightPx = 0
  /\ Len(CurrentLayout.lines) = 2
  /\ \E j \in 1..Len(CurrentLayout.glyphs) : CurrentLayout.glyphs[j].lineIndex = 1
  /\ geometry.width = 36
  /\ geometry.height = 2 * FontCommon.lineHeight

(***************************************************************************)
(* C28.  The median of the shader, max(min(r, g), min(max(r, g), b)), is   *)
(* the middle value of its three arguments for all r, g, b: it is one of   *)
(* them, two of them are not above it and two are not below it; hence it   *)
(* is the same for every order of the three channels.  The signed distance *)
(* of the fill is that median minus one half.                              *)
(***************************************************************************)
\* m is the middle value of the three channels of the texel
IsMiddleValue(m, s) ==
  LET channels == << s.r, s.g, s.b >> IN
  /\ \E c \in 1..3 : channels[c] = m
  /\ Cardinality({ c \in 1..3 : channels[c] <= m }) >= 2
  /\ Cardinality({ c \in 1..3 : channels[c] >= m }) >= 2

\* the texel with its channels in the order p, a permutation of << "r", "g", "b" >>
Permuted(s, p) == [r |-> s[p[1]], g |-> s[p[2]], b |-> s[p[3]]]

ChannelOrders ==
  { p \in [1..3 -> { "r", "g", "b" }] : \A c, d \in 1..3 : c # d => p[c] # p[d] }

C28_MedianIsMiddleValue ==
  (op.name = "shaded")
    => /\ \E m \in Channels :
            /\ IsMiddleValue(m, op.s)
            /\ op.sigDist + MaxChannel = 2 * m
       /\ \A p \in ChannelOrders : sigDist(Permuted(op.s, p)) = op.sigDist

\* a texel whose blue channel is the largest and whose red channel is the middle one:
\* the signed distance is that of the red channel
C28_Witness ==
  /\ op.name = "shaded"
  /\ op.s = [r |-> 1, g |-> 0, b |-> MaxChannel]
  /\ op.sigDist = 2 - MaxChannel

(***************************************************************************)
(* C29.  The per-letter colour strategy installed in the material is the   *)
(* one requested last: whatever calls of setGlyphColors, setGlyphColor,    *)
(* clearGlyphColors and update, assignments to material.letterColorNode    *)
(* and calls of material.clearLetterEffects() came before, when            *)
(* setGlyphColors with colours (not null) or setGlyphColor with an index   *)
(* in range returns, the letter colour override of the material is the one *)
(* that reads the glyph-colour attribute.                                  *)
(***************************************************************************)
\* the last call asked for the colours of the glyph-colour attribute: setGlyphColors
\* with an input that gave colours, or setGlyphColor with an index in range
AttributeColoursRequested ==
  \/ op.name = "setGlyphColors" /\ Truthy(op.colors) /\ Truthy(glyphColors)
  \/ op.name = "setGlyphColor" /\ ~ GlyphIndexOutOfRange(op.index, GlyphCount(geometry))

C29_AttributeColoursInstalled ==
  AttributeColoursRequested => material.letterColorNode = "attribute"

(***************************************************************************)
(* C30.  The bounding box bounds the geometry horizontally: for every      *)
(* textAlign, where every line of the layout is at most as wide as the     *)
(* wrap width, the x of every vertex of every glyph quad of the position   *)
(* buffer lies within the x-extent of the bounding box the same            *)
(* construction computed.                                                  *)
(***************************************************************************)
\* every line of the layout is at most as wide as the wrap width
LinesFitWrapWidth(metrics, layout) ==
  \A k \in 1..Len(layout.lines) : layout.lines[k].width <= metrics.widthPx

\* the x of every vertex of the position buffer lies within the box
QuadsWithinBoxHorizontally(positions, boundingBox) ==
  \A v \in 0..(Len(positions) \div 3 - 1) :
    /\ boundingBox.min[1] <= VertexAt(positions, v)[1]
    /\ VertexAt(positions, v)[1] <= boundingBox.max[1]

C30_BoundingBoxBoundsQuads ==
  (op.name = "construct" /\ LinesFitWrapWidth(geometry.currentMetrics, CurrentLayout))
    => QuadsWithinBoxHorizontally(geometry.attributes.position.array, geometry.boundingBox)

====
